---- MODULE Spec2Model ----
(***************************************************************************)
(* Authorization and audit core of the task-management API:               *)
(* role model, organization scoping, task / user / organization services  *)
(* with the guards of their controllers, and the audit trail.             *)
(***************************************************************************)
EXTENDS Integers, Sequences, FiniteSets, TLC

(***************************************************************************)
(* Bounds of the model.                                                    *)
(***************************************************************************)
\* audit_logs rows the model lets the store hold; a request that would
\* append to a full log is not taken
MaxAudit == 1
\* task, user and organization identifiers (the initial rows plus the
\* rows later requests may insert)
MaxTasks == 5
MaxUsers == 8
MaxOrgs == 6
\* longest taskIds array of a reorder request
MaxReorder == 1
\* rows the model of the audit service alone lets AuditService.log write
MaxAuditLog == 2
\* filters one audit query supplies
MaxFilters == 1

\* page size of AuditService.findAll and row limits of findByUser,
\* getLoginHistory and getFailedLogins
FindAllLimit == 50
FindByUserLimit == 100
LoginHistoryLimit == 50
FailedLoginsLimit == 50

\* null / undefined: NULL for a string column, NoId for an identifier
NULL == "null"
NoId == 0

(***************************************************************************)
(* RoleModel: role.enum.ts, permission.enum.ts                             *)
(***************************************************************************)
OWNER == "owner"
ADMIN == "admin"
VIEWER == "viewer"
Role == {OWNER, ADMIN, VIEWER}
\* a role value outside the enum, as an unconstrained varchar column or a
\* token payload can carry
GUEST == "guest"
RoleValues == Role \cup {GUEST}

RankOwner == 3
RankAdmin == 2
RankViewer == 1
ROLE_HIERARCHY == [r \in Role |->
    IF r = OWNER THEN RankOwner ELSE IF r = ADMIN THEN RankAdmin ELSE RankViewer]

\* a comparison that wants a strictly higher rank
isRoleStrictlyHigher(userRole, requiredRole) ==
    /\ userRole \in DOMAIN ROLE_HIERARCHY
    /\ requiredRole \in DOMAIN ROLE_HIERARCHY
    /\ ROLE_HIERARCHY[userRole] > ROLE_HIERARCHY[requiredRole]

\* ROLE_HIERARCHY[x] is undefined for a value outside the enum and every
\* comparison with undefined is false
isRoleHigherOrEqual(userRole, requiredRole) ==
    /\ userRole \in DOMAIN ROLE_HIERARCHY
    /\ requiredRole \in DOMAIN ROLE_HIERARCHY
    /\ ROLE_HIERARCHY[userRole] >= ROLE_HIERARCHY[requiredRole]

\* request.user of a request that carries no verified token
NoPrincipal == [sub |-> NoId, email |-> NULL, role |-> NULL, organizationId |-> NoId]

\* RolesGuard.canActivate: TRUE admits the request, FALSE is the
\* ForbiddenException
RolesGuardCanActivate(requiredRoles, user) ==
    IF requiredRoles = {} THEN TRUE
    ELSE IF user = NoPrincipal THEN FALSE
    ELSE \E requiredRole \in requiredRoles :
            \/ user.role = requiredRole
            \/ isRoleHigherOrEqual(user.role, requiredRole)

(***************************************************************************)
(* State                                                                   *)
(***************************************************************************)
VARIABLES
    orgs,     \* organizations table: id -> [state, parentId, name]
    users,    \* users table: id -> [state, email, role, organizationId, isActive]
    tasks,    \* tasks table: id -> [state, userId, organizationId, status, position]
    audit,    \* audit_logs table, in insertion order
    auditFailures,  \* audit_logs writes the store has refused so far
    tokens,   \* JWT payloads signed so far
    pc,       \* "idle", or "responded" while a response is being returned
    last,     \* the request just handled and its response
    permCheck,  \* a call of hasPermission or of a role check: its arguments
                \* and what it returned
    dashboard   \* the browser side: localStorage and the dashboard AuthService

vars == <<orgs, users, tasks, audit, auditFailures, tokens, pc, last, permCheck,
          dashboard>>

OrgIds == 1..MaxOrgs
UserIds == 1..MaxUsers
TaskIds == 1..MaxTasks

\* a row is "free" before it is inserted, "live" while stored, "gone" once
\* removed; generated UUIDs are never reused
LiveOrgs == {o \in OrgIds : orgs[o].state = "live"}
LiveUsers == {u \in UserIds : users[u].state = "live"}
LiveTasks == {t \in TaskIds : tasks[t].state = "live"}

TODO == "todo"
IN_PROGRESS == "in_progress"
DONE == "done"
CANCELLED == "cancelled"
TaskStatus == {TODO, IN_PROGRESS, DONE, CANCELLED}

FreeOrg == [state |-> "free", parentId |-> NoId, name |-> NULL]
FreeUser == [state |-> "free", email |-> NULL, role |-> NULL,
             organizationId |-> NoId, isActive |-> FALSE]
FreeTask == [state |-> "free", userId |-> NoId, organizationId |-> NoId,
             status |-> NULL, position |-> 0]

Org(parent) == [state |-> "live", parentId |-> parent, name |-> "name"]
User(email, role, org) == [state |-> "live", email |-> email, role |-> role,
                           organizationId |-> org, isActive |-> TRUE]
Task(owner, org, status, position) ==
    [state |-> "live", userId |-> owner, organizationId |-> org,
     status |-> status, position |-> position]

\* JWT payload built by AuthService.login
Payload(u) == [sub |-> u, email |-> users[u].email, role |-> users[u].role,
               organizationId |-> users[u].organizationId]

\* an absent startDate / endDate
NoDate == NoId

\* an audit query that supplies no filter
EmptyQuery == [action |-> NULL, resource |-> NULL, userId |-> NoId,
               startDate |-> NoDate, endDate |-> NoDate, success |-> NULL]

NoRequest == [op |-> "none", principal |-> NoPrincipal, target |-> NoId,
              targetOrg |-> NoId, targetOwner |-> NoId, query |-> EmptyQuery,
              outcome |-> "none", result |-> {}]

\* no call of hasPermission is in progress
NoPermCheck == [role |-> NULL, permission |-> NULL, result |-> "none"]

\* User | null of the dashboard: no user
NoUser == [email |-> NULL, role |-> NULL]

\* a browser with empty localStorage and a freshly constructed AuthService
NoDashboard == [auth_token |-> NULL, current_user |-> NoUser,
                currentUserSignal |-> NoUser, isLoadingSignal |-> FALSE,
                loginInFlight |-> FALSE, url |-> "/login", returnUrl |-> NULL]

\* The seeded database (seed.ts: a parent organization with two children,
\* an owner, two child-organization admins and a viewer, tasks in each),
\* extended with a second root organization, a third one without users,
\* an admin of the parent
\* organization and, in the second root organization, a user whose stored
\* role is outside the enum with a task it created, and a deactivated
\* viewer; every active seeded user holds a token.
InitOrgs == [o \in OrgIds |->
    IF o = 1 THEN Org(NoId)
    ELSE IF o \in {2, 3} THEN Org(1)
    ELSE IF o \in {4, 5} THEN Org(NoId)
    ELSE FreeOrg]

InitUsers == [u \in UserIds |->
    IF u = 1 THEN User("u1@x", OWNER, 1)
    ELSE IF u = 2 THEN User("u2@x", ADMIN, 2)
    ELSE IF u = 3 THEN User("u3@x", VIEWER, 2)
    ELSE IF u = 4 THEN User("u4@x", ADMIN, 3)
    ELSE IF u = 5 THEN User("u5@x", ADMIN, 1)
    ELSE IF u = 6 THEN User("u6@x", GUEST, 4)
    ELSE IF u = 7 THEN [User("u7@x", VIEWER, 3) EXCEPT !.isActive = FALSE]
    ELSE FreeUser]

InitTasks == [t \in TaskIds |->
    IF t = 1 THEN Task(3, 2, TODO, 1)
    ELSE IF t = 2 THEN Task(4, 3, IN_PROGRESS, 1)
    ELSE IF t = 3 THEN Task(5, 1, TODO, 1)
    ELSE IF t = 4 THEN Task(6, 4, TODO, 1)
    ELSE FreeTask]

Init ==
    /\ orgs = InitOrgs
    /\ users = InitUsers
    /\ tasks = InitTasks
    /\ audit = <<>>
    /\ auditFailures = 0
    /\ tokens = {[sub |-> u, email |-> InitUsers[u].email,
                  role |-> InitUsers[u].role,
                  organizationId |-> InitUsers[u].organizationId] :
                 u \in {v \in UserIds : InitUsers[v].state = "live"
                                          /\ InitUsers[v].isActive}}
    /\ pc = "idle"
    /\ last = NoRequest
    /\ permCheck = NoPermCheck
    /\ dashboard = NoDashboard

(***************************************************************************)
(* Request pipeline: JwtAuthGuard / JwtStrategy, RolesGuard, AuditService  *)
(***************************************************************************)
\* JwtStrategy.validate: a payload without sub, role or organizationId is
\* rejected; the role value itself is not checked
JwtValidate(payload) ==
    /\ payload.sub # NoId
    /\ payload.role # NULL
    /\ payload.organizationId # NoId

\* request.user of an authenticated request
Principals == {p \in tokens : JwtValidate(p)}

\* an audit row that drops the actor
LogEntryWithoutActor(action, resource, resourceId, userId, userEmail, organizationId, success) ==
    [action |-> action, resource |-> resource, resourceId |-> resourceId,
     userId |-> NoId, userEmail |-> NULL,
     organizationId |-> organizationId, success |-> success]

\* AuditService.log: one audit_logs row
LogEntry(action, resource, resourceId, userId, userEmail, organizationId, success) ==
    [action |-> action, resource |-> resource, resourceId |-> resourceId,
     userId |-> userId, userEmail |-> userEmail,
     organizationId |-> organizationId, success |-> success]

\* the created_at values the store can give the next row (@CreateDateColumn):
\* the clock reading of the insert, which is the reading of the previous
\* insert or a later one
NextStamps ==
    IF audit = <<>> THEN {1}
    ELSE {audit[Len(audit)].createdAt, audit[Len(audit)].createdAt + 1}

\* the row auditLogRepository.save stores for an entry
AuditRow(entry, at) == entry @@ [createdAt |-> at]

\* a write that puts the new row in front of the stored ones
AuditLogNewestFirst(entry) ==
    /\ \E at \in NextStamps : audit' = <<AuditRow(entry, at)>> \o audit
    /\ UNCHANGED auditFailures

\* AuditService.log(entry): create and save with no try/catch; the save
\* either stores the row or rejects, and a rejection is thrown to the caller
AuditLog(entry) ==
    \/ /\ \E at \in NextStamps : audit' = Append(audit, AuditRow(entry, at))
       /\ UNCHANGED auditFailures
    \/ /\ auditFailures' = auditFailures + 1
       /\ UNCHANGED audit

\* the write of the request in progress was stored
AuditStored == auditFailures' = auditFailures

\* audit writes (stored or refused) the model lets a behaviour make through
\* the request handlers
AuditRoom == Len(audit) + auditFailures < MaxAudit

Respond(op, p, target, targetOrg, targetOwner, outcome, result) ==
    /\ pc' = "responded"
    /\ last' = [op |-> op, principal |-> p, target |-> target,
                targetOrg |-> targetOrg, targetOwner |-> targetOwner,
                query |-> EmptyQuery, outcome |-> outcome, result |-> result]
    /\ UNCHANGED <<permCheck, dashboard>>

\* the response to an audit query
RespondQuery(op, p, options, outcome, result) ==
    /\ pc' = "responded"
    /\ last' = [op |-> op, principal |-> p, target |-> NoId,
                targetOrg |-> NoId, targetOwner |-> NoId,
                query |-> options, outcome |-> outcome, result |-> result]
    /\ UNCHANGED <<permCheck, dashboard>>

\* the response of a handler that awaited AuditService.log before returning:
\* its own response when the row was stored, the thrown error otherwise
RespondLogged(op, p, target, targetOrg, targetOwner, outcome, result) ==
    IF AuditStored
    THEN Respond(op, p, target, targetOrg, targetOwner, outcome, result)
    ELSE Respond(op, p, target, targetOrg, targetOwner, "error", {})

\* the response has been sent; the next request can be handled
Return ==
    /\ pc = "responded"
    /\ pc' = "idle"
    /\ last' = NoRequest
    /\ UNCHANGED <<orgs, users, tasks, audit, auditFailures, tokens, permCheck, dashboard>>

\* String.prototype.toLowerCase on the strings of the model (e-mail
\* addresses and role names); every other string of the model is lower case
toLowerCase(s) ==
    IF s = "New@x" THEN "new@x"
    ELSE IF s = "U3@x" THEN "u3@x"
    ELSE IF s = "Nobody@x" THEN "nobody@x"
    ELSE IF s = "OWNER" THEN "owner"
    ELSE IF s = "Admin" THEN "admin"
    ELSE IF s = "CONSTRUCTOR" THEN "constructor"
    ELSE s

(***************************************************************************)
(* Permissions: permission.enum.ts                                         *)
(***************************************************************************)
TaskPermissions == {"task:create", "task:read", "task:update", "task:delete"}
UserPermissions == {"user:create", "user:read", "user:update", "user:delete"}
OrgPermissions == {"org:read", "org:update", "org:manage"}
Permission == TaskPermissions \cup UserPermissions \cup OrgPermissions \cup {"audit:read"}

\* the own properties of the ROLE_PERMISSIONS object literal
ROLE_PERMISSIONS ==
    [owner |-> Permission,
     admin |-> TaskPermissions \cup {"user:create", "user:read", "user:update",
                                     "org:read", "audit:read"},
     viewer |-> {"task:read", "user:read", "org:read"}]

\* the lower-case property names an object literal inherits from
\* Object.prototype: a function and an object, neither of them an array
InheritedKeys == {"constructor", "__proto__"}

\* ROLE_PERMISSIONS[key]: an own property gives the array, an inherited one a
\* value that is truthy and has no includes method, anything else undefined
RolePermissionsLookup(key) ==
    IF key \in DOMAIN ROLE_PERMISSIONS
    THEN [kind |-> "array", items |-> ROLE_PERMISSIONS[key]]
    ELSE IF key \in InheritedKeys
    THEN [kind |-> "inherited", items |-> {}]
    ELSE [kind |-> "undefined", items |-> {}]

\* hasPermission(role, permission): "true", "false", or "TypeError" when
\* permissions.includes is not a function
hasPermission(role, permission) ==
    LET permissions == RolePermissionsLookup(toLowerCase(role)) IN
    IF permissions.kind = "undefined" THEN "false"
    ELSE IF permissions.kind = "array"
         THEN IF permission \in permissions.items THEN "true" ELSE "false"
    ELSE "TypeError"

\* the role strings a caller passes: the enum values, their other spellings,
\* values outside the enum
RoleInputs == {"owner", "admin", "viewer", "OWNER", "Admin", "guest", "",
               "superadmin", "constructor", "CONSTRUCTOR", "__proto__"}

\* one call of hasPermission on arguments chosen at the start
HasPermissionCall ==
    /\ permCheck.result = "pending"
    /\ permCheck' = [permCheck EXCEPT
            !.result = hasPermission(permCheck.role, permCheck.permission)]
    /\ UNCHANGED <<orgs, users, tasks, audit, auditFailures, tokens, pc, last, dashboard>>

(***************************************************************************)
(* TasksService / TasksController                                          *)
(***************************************************************************)
ChildOrgsOf(orgId) == {o \in LiveOrgs : orgs[o].parentId = orgId}

\* getAccessibleOrgIds of the shared data library: the organization itself
\* plus the organizations whose parentId is that organization
getAccessibleOrgIds(userOrgId) ==
    {userOrgId} \cup {o \in LiveOrgs : orgs[o].parentId = userOrgId}

\* a scope resolution that also climbs to the parent organization
TasksAccessibleOrgIdsWithParent(user) ==
    IF user.role = OWNER THEN LiveOrgs
    ELSE {user.organizationId} \cup ChildOrgsOf(user.organizationId)
            \cup (IF user.organizationId \in LiveOrgs
                      /\ orgs[user.organizationId].parentId # NoId
                   THEN {orgs[user.organizationId].parentId} ELSE {})

\* TasksService.getAccessibleOrganizationIds
TasksAccessibleOrgIds(user) ==
    IF user.role = OWNER THEN LiveOrgs
    ELSE {user.organizationId} \cup ChildOrgsOf(user.organizationId)

\* TasksService.checkTaskAccess: TRUE when it returns, FALSE when it throws
\* ForbiddenException
checkTaskAccess(task, user, action) ==
    IF user.role = OWNER THEN TRUE
    ELSE IF user.role = VIEWER
         THEN IF task.userId # user.sub THEN FALSE
              ELSE IF action # "read" THEN FALSE
              ELSE TRUE
    ELSE task.organizationId \in TasksAccessibleOrgIds(user)

SetMax(S) == CHOOSE x \in S : \A y \in S : y <= x
SetMin(S) == CHOOSE x \in S : \A y \in S : x <= y

\* MAX(task.position) over the tasks of the organization, || 0
MaxPosition(orgId) ==
    LET ps == {tasks[t].position : t \in {x \in LiveTasks : tasks[x].organizationId = orgId}}
    IN IF ps = {} THEN 0 ELSE SetMax(ps)

FreeTaskIds == {t \in TaskIds : tasks[t].state = "free"}

\* POST /tasks
TaskCreate(p) ==
    /\ pc = "idle"
    /\ p \in Principals
    /\ FreeTaskIds # {}
    /\ AuditRoom
    /\ LET id == SetMin(FreeTaskIds) IN
        /\ tasks' = [tasks EXCEPT ![id] =
                Task(p.sub, p.organizationId, TODO, MaxPosition(p.organizationId) + 1)]
        /\ AuditLog(LogEntry("TASK_CREATED", "task", id, p.sub, p.email,
                             p.organizationId, TRUE))
        /\ RespondLogged("task.create", p, id, p.organizationId, p.sub, "ok", {id})
    /\ UNCHANGED <<orgs, users, tokens>>

\* GET /tasks/:id
TaskFindOne(p, t) ==
    /\ pc = "idle"
    /\ p \in Principals
    /\ IF t \notin LiveTasks
       THEN Respond("task.read", p, t, NoId, NoId, "notfound", {})
       ELSE IF ~checkTaskAccess(tasks[t], p, "read")
       THEN Respond("task.read", p, t, tasks[t].organizationId, tasks[t].userId,
                    "forbidden", {})
       ELSE Respond("task.read", p, t, tasks[t].organizationId, tasks[t].userId,
                    "ok", {t})
    /\ UNCHANGED <<orgs, users, tasks, audit, auditFailures, tokens>>

\* the columns an UpdateTaskDto can carry that the model keeps: status
\* (NULL when the dto leaves it out)
UpdateTaskDtos == [status : TaskStatus \cup {NULL}]

\* PUT /tasks/:id
TaskUpdate(p, t, dto) ==
    /\ pc = "idle"
    /\ p \in Principals
    /\ IF t \notin LiveTasks
       THEN /\ Respond("task.update", p, t, NoId, NoId, "notfound", {})
            /\ UNCHANGED <<tasks, audit, auditFailures>>
       ELSE IF ~checkTaskAccess(tasks[t], p, "update")
       THEN /\ Respond("task.update", p, t, tasks[t].organizationId,
                       tasks[t].userId, "forbidden", {})
            /\ UNCHANGED <<tasks, audit, auditFailures>>
       ELSE /\ AuditRoom
            /\ tasks' = [tasks EXCEPT ![t].status =
                    IF dto.status # NULL THEN dto.status ELSE @]
            /\ AuditLog(LogEntry("TASK_UPDATED", "task", t, p.sub, p.email,
                                 p.organizationId, TRUE))
            /\ RespondLogged("task.update", p, t, tasks[t].organizationId,
                       tasks[t].userId, "ok", {t})
    /\ UNCHANGED <<orgs, users, tokens>>

\* DELETE /tasks/:id
TaskRemove(p, t) ==
    /\ pc = "idle"
    /\ p \in Principals
    /\ IF t \notin LiveTasks
       THEN /\ Respond("task.delete", p, t, NoId, NoId, "notfound", {})
            /\ UNCHANGED <<tasks, audit, auditFailures>>
       ELSE IF ~checkTaskAccess(tasks[t], p, "delete")
       THEN /\ Respond("task.delete", p, t, tasks[t].organizationId,
                       tasks[t].userId, "forbidden", {})
            /\ UNCHANGED <<tasks, audit, auditFailures>>
       ELSE /\ AuditRoom
            /\ tasks' = [tasks EXCEPT ![t].state = "gone"]
            /\ AuditLog(LogEntry("TASK_DELETED", "task", t, p.sub, p.email,
                                 p.organizationId, TRUE))
            /\ RespondLogged("task.delete", p, t, tasks[t].organizationId,
                       tasks[t].userId, "ok", {t})
    /\ UNCHANGED <<orgs, users, tokens>>

\* the taskIds arrays of a reorder request
ReorderDtos == UNION {[1..n -> TaskIds] : n \in 0..MaxReorder}

\* the loop of TasksService.reorder: taskRepository.update(taskIds[i],
\* { position: i }) for i = 0 .. length-1, a later update overriding an
\* earlier one; an id without a row updates nothing
RECURSIVE ReorderLoop(_, _, _)
ReorderLoop(tbl, taskIds, i) ==
    IF i > Len(taskIds) THEN tbl
    ELSE ReorderLoop(
            IF tbl[taskIds[i]].state = "live"
            THEN [tbl EXCEPT ![taskIds[i]].position = i - 1]
            ELSE tbl,
            taskIds, i + 1)

\* TasksService.reorder(reorderDto, user), the service behind PUT /tasks/reorder
TaskReorder(p, taskIds) ==
    /\ pc = "idle"
    /\ p \in Principals
    /\ AuditRoom
    /\ tasks' = ReorderLoop(tasks, taskIds, 1)
    /\ AuditLog(LogEntry("TASKS_REORDERED", "task", NoId, p.sub, p.email,
                         p.organizationId, TRUE))
    /\ RespondLogged("task.reorder", p, NoId, NoId, NoId, "ok",
               {taskIds[i] : i \in 1..Len(taskIds)} \cap LiveTasks)
    /\ UNCHANGED <<orgs, users, tokens>>

\* the filters of a TaskQueryDto that the model keeps: status (NULL when
\* absent); page and limit keep their defaults
TaskQueryDtos == [status : TaskStatus \cup {NULL}]

\* a listing that filters every caller by organization scope, the VIEWER
\* included
TasksFindAllRowsByOrgOnly(query, user) ==
    {t \in LiveTasks :
        /\ tasks[t].organizationId \in TasksAccessibleOrgIds(user)
        /\ query.status # NULL => tasks[t].status = query.status}

\* the rows TasksService.findAll selects
TasksFindAllRows(query, user) ==
    {t \in LiveTasks :
        /\ IF user.role = VIEWER
           THEN tasks[t].userId = user.sub
           ELSE tasks[t].organizationId \in TasksAccessibleOrgIds(user)
        /\ query.status # NULL => tasks[t].status = query.status}

\* TasksService.findAll(query, user), the service behind GET /tasks
TaskFindAll(p, query) ==
    /\ pc = "idle"
    /\ p \in Principals
    /\ Respond("task.list", p, NoId, NoId, NoId, "ok", TasksFindAllRows(query, p))
    /\ UNCHANGED <<orgs, users, tasks, audit, auditFailures, tokens>>

\* the rows TasksService.getStats counts
TasksStatsRows(user) ==
    {t \in LiveTasks :
        IF user.role = VIEWER
        THEN tasks[t].userId = user.sub
        ELSE tasks[t].organizationId \in TasksAccessibleOrgIds(user)}

\* GET /tasks/stats
TaskGetStats(p) ==
    /\ pc = "idle"
    /\ p \in Principals
    /\ Respond("task.stats", p, NoId, NoId, NoId, "ok", TasksStatsRows(p))
    /\ UNCHANGED <<orgs, users, tasks, audit, auditFailures, tokens>>

TaskRequests ==
    \/ pc = "idle" /\ \E p \in tokens : TaskCreate(p)
    \/ pc = "idle" /\ \E p \in tokens, t \in TaskIds : TaskFindOne(p, t)
    \/ pc = "idle" /\ \E p \in tokens, t \in TaskIds, dto \in UpdateTaskDtos : TaskUpdate(p, t, dto)
    \/ pc = "idle" /\ \E p \in tokens, t \in TaskIds : TaskRemove(p, t)
    \/ pc = "idle" /\ \E p \in tokens, taskIds \in ReorderDtos : TaskReorder(p, taskIds)
    \/ pc = "idle" /\ \E p \in tokens, query \in TaskQueryDtos : TaskFindAll(p, query)
    \/ pc = "idle" /\ \E p \in tokens : TaskGetStats(p)

(***************************************************************************)
(* UsersService / UsersController                                          *)
(***************************************************************************)
\* userRepository.findOne({ where: { email } })
\* userRepository.save of a row whose organization_id names no stored
\* organization: the services never look the organization up, and the
\* @ManyToOne relation of the entity is a foreign key only where the database
\* enforces it; then the insert fails and the request ends with that error
\* ("constraint"), otherwise the row is stored
StoreMayRefuse(organizationId) == organizationId \notin LiveOrgs

UsersByEmail(email) == {u \in LiveUsers : users[u].email = email}

FreeUserIds == {u \in UserIds : users[u].state = "free"}

\* UsersService.getAccessibleOrganizationIds
UsersAccessibleOrgIds(user) ==
    {user.organizationId} \cup ChildOrgsOf(user.organizationId)

\* a user access check that sends the OWNER through the organization scope
\* like an ADMIN instead of returning early
checkUserAccessWithoutOwnerBypass(targetId, targetUser, currentUser, action) ==
    IF targetId = currentUser.sub THEN TRUE
    ELSE IF /\ currentUser.role \in {OWNER, ADMIN}
            /\ action = "read"
            /\ targetUser.organizationId \in UsersAccessibleOrgIds(currentUser)
    THEN TRUE
    ELSE FALSE

\* UsersService.checkUserAccess: TRUE when it returns, FALSE when it throws
\* ForbiddenException
checkUserAccess(targetId, targetUser, currentUser, action) ==
    IF currentUser.role = OWNER THEN TRUE
    ELSE IF targetId = currentUser.sub THEN TRUE
    ELSE IF /\ currentUser.role = ADMIN
            /\ action = "read"
            /\ targetUser.organizationId \in UsersAccessibleOrgIds(currentUser)
    THEN TRUE
    ELSE FALSE

\* the filters of a UserQueryDto that the model keeps: role
UserQueryDtos == [role : Role \cup {NULL}]

\* the rows UsersService.findAll selects
UsersFindAllRows(query, currentUser) ==
    {u \in LiveUsers :
        /\ IF currentUser.role = OWNER THEN TRUE
           ELSE IF currentUser.role = ADMIN
           THEN users[u].organizationId \in UsersAccessibleOrgIds(currentUser)
           ELSE u = currentUser.sub
        /\ query.role # NULL => users[u].role = query.role}

\* UsersService.findAll(query, currentUser), the service behind GET /users
\* @Roles(OWNER, ADMIN)
UserFindAll(p, query) ==
    /\ pc = "idle"
    /\ p \in Principals
    /\ IF ~RolesGuardCanActivate({OWNER, ADMIN}, p)
       THEN Respond("user.list", p, NoId, NoId, NoId, "forbidden", {})
       ELSE Respond("user.list", p, NoId, NoId, NoId, "ok", UsersFindAllRows(query, p))
    /\ UNCHANGED <<orgs, users, tasks, audit, auditFailures, tokens>>

\* GET /users/:id
UserFindOne(p, u) ==
    /\ pc = "idle"
    /\ p \in Principals
    /\ IF u \notin LiveUsers
       THEN Respond("user.read", p, u, NoId, NoId, "notfound", {})
       ELSE IF ~checkUserAccess(u, users[u], p, "read")
       THEN Respond("user.read", p, u, users[u].organizationId, u, "forbidden", {})
       ELSE Respond("user.read", p, u, users[u].organizationId, u, "ok", {u})
    /\ UNCHANGED <<orgs, users, tasks, audit, auditFailures, tokens>>

\* the CreateUserDto values of the model: a new address (in two spellings)
\* or the address of a stored user, a role of the enum, an organization id
CreateUserEmails == {"new@x", "New@x", "U3@x"}
CreateUserDtos == [email : CreateUserEmails, role : Role,
                   organizationId : {o \in OrgIds : orgs[o].state # "free"}]

\* POST /users   @Roles(OWNER, ADMIN)
UserCreate(p, dto) ==
    /\ pc = "idle"
    /\ p \in Principals
    /\ IF ~RolesGuardCanActivate({OWNER, ADMIN}, p)
       THEN /\ Respond("user.create", p, NoId, dto.organizationId, NoId, "forbidden", {})
            /\ UNCHANGED <<users, audit, auditFailures>>
       ELSE IF UsersByEmail(toLowerCase(dto.email)) # {}
       THEN /\ Respond("user.create", p, NoId, dto.organizationId, NoId, "conflict", {})
            /\ UNCHANGED <<users, audit, auditFailures>>
       ELSE IF dto.role = OWNER /\ p.role # OWNER
       THEN /\ Respond("user.create", p, NoId, dto.organizationId, NoId, "forbidden", {})
            /\ UNCHANGED <<users, audit, auditFailures>>
       ELSE \/ /\ FreeUserIds # {}
               /\ AuditRoom
               /\ LET id == SetMin(FreeUserIds) IN
                   /\ users' = [users EXCEPT ![id] =
                           User(toLowerCase(dto.email), dto.role, dto.organizationId)]
                   /\ AuditLog(LogEntry("USER_CREATED", "user", id, p.sub, p.email,
                                        p.organizationId, TRUE))
                   /\ RespondLogged("user.create", p, id, dto.organizationId, id, "ok", {id})
            \/ /\ StoreMayRefuse(dto.organizationId)
               /\ Respond("user.create", p, NoId, dto.organizationId, NoId, "constraint", {})
               /\ UNCHANGED <<users, audit, auditFailures>>
    /\ UNCHANGED <<orgs, tasks, tokens>>

\* the columns an UpdateUserDto can carry that the model keeps: role and
\* isActive (NULL when the dto leaves the column out); one of them a request
UpdateUserDtos ==
    {d \in [role : Role \cup {NULL}, isActive : {"true", "false", NULL}] :
        d.role = NULL \/ d.isActive = NULL}

\* PUT /users/:id
UserUpdate(p, u, dto) ==
    /\ pc = "idle"
    /\ p \in Principals
    /\ IF u \notin LiveUsers
       THEN /\ Respond("user.update", p, u, NoId, NoId, "notfound", {})
            /\ UNCHANGED <<users, audit, auditFailures>>
       ELSE IF ~checkUserAccess(u, users[u], p, "update")
       THEN /\ Respond("user.update", p, u, users[u].organizationId, u, "forbidden", {})
            /\ UNCHANGED <<users, audit, auditFailures>>
       ELSE IF dto.role # NULL /\ dto.role # users[u].role /\ p.role # OWNER
       THEN /\ Respond("user.update", p, u, users[u].organizationId, u, "forbidden", {})
            /\ UNCHANGED <<users, audit, auditFailures>>
       ELSE /\ AuditRoom
            /\ users' = [users EXCEPT
                    ![u].role = IF dto.role # NULL THEN dto.role ELSE @,
                    ![u].isActive = IF dto.isActive # NULL
                                    THEN dto.isActive = "true" ELSE @]
            /\ AuditLog(LogEntry("USER_UPDATED", "user", u, p.sub, p.email,
                                 p.organizationId, TRUE))
            /\ RespondLogged("user.update", p, u, users[u].organizationId, u, "ok", {u})
    /\ UNCHANGED <<orgs, tasks, tokens>>

\* DELETE /users/:id   @Roles(OWNER)
UserRemove(p, u) ==
    /\ pc = "idle"
    /\ p \in Principals
    /\ IF ~RolesGuardCanActivate({OWNER}, p)
       THEN /\ Respond("user.delete", p, u, NoId, NoId, "forbidden", {})
            /\ UNCHANGED <<users, audit, auditFailures>>
       ELSE IF u \notin LiveUsers
       THEN /\ Respond("user.delete", p, u, NoId, NoId, "notfound", {})
            /\ UNCHANGED <<users, audit, auditFailures>>
       ELSE IF p.role # OWNER
       THEN /\ Respond("user.delete", p, u, users[u].organizationId, u, "forbidden", {})
            /\ UNCHANGED <<users, audit, auditFailures>>
       ELSE /\ AuditRoom
            /\ users' = [users EXCEPT ![u].isActive = FALSE]
            /\ AuditLog(LogEntry("USER_DELETED", "user", u, p.sub, p.email,
                                 p.organizationId, TRUE))
            /\ RespondLogged("user.delete", p, u, users[u].organizationId, u, "ok", {u})
    /\ UNCHANGED <<orgs, tasks, tokens>>

UserRequests ==
    \/ pc = "idle" /\ \E p \in tokens, query \in UserQueryDtos : UserFindAll(p, query)
    \/ pc = "idle" /\ \E p \in tokens, u \in UserIds : UserFindOne(p, u)
    \/ pc = "idle" /\ \E p \in tokens, dto \in CreateUserDtos : UserCreate(p, dto)
    \/ pc = "idle" /\ \E p \in tokens, u \in UserIds, dto \in UpdateUserDtos : UserUpdate(p, u, dto)
    \/ pc = "idle" /\ \E p \in tokens, u \in UserIds : UserRemove(p, u)

(***************************************************************************)
(* OrganizationsService / OrganizationsController                          *)
(***************************************************************************)
FreeOrgIds == {o \in OrgIds : orgs[o].state = "free"}

\* OrganizationsService.getAccessibleOrganizationIds
OrgsAccessibleOrgIds(user) ==
    {user.organizationId} \cup
    (IF user.organizationId \in LiveOrgs
     THEN ChildOrgsOf(user.organizationId) \cup
          (IF orgs[user.organizationId].parentId # NoId
           THEN {orgs[user.organizationId].parentId}
           ELSE {})
     ELSE {})

\* the rows OrganizationsService.findAll returns
\* toOrganizationResponse: the organizations whose id and name a response
\* for the row carries: the row itself, its parent and its children
\* (relations: ['parent', 'children'])
OrgResponseIds(o) ==
    {o} \cup (IF orgs[o].parentId \in LiveOrgs THEN {orgs[o].parentId} ELSE {})
        \cup ChildOrgsOf(o)

OrgsFindAllRows(currentUser) ==
    IF currentUser.role = OWNER THEN LiveOrgs
    ELSE LiveOrgs \cap OrgsAccessibleOrgIds(currentUser)

\* GET /organizations
OrgFindAll(p) ==
    /\ pc = "idle"
    /\ p \in Principals
    /\ Respond("org.list", p, NoId, NoId, NoId, "ok",
               UNION {OrgResponseIds(o) : o \in OrgsFindAllRows(p)})
    /\ UNCHANGED <<orgs, users, tasks, audit, auditFailures, tokens>>

\* the rows OrganizationsService.getHierarchy returns
OrgsHierarchyRows(currentUser) ==
    LET parents == {o \in LiveOrgs : orgs[o].parentId = NoId}
    IN IF currentUser.role # OWNER
       THEN parents \cap OrgsAccessibleOrgIds(currentUser)
       ELSE parents

\* GET /organizations/hierarchy
OrgGetHierarchy(p) ==
    /\ pc = "idle"
    /\ p \in Principals
    /\ Respond("org.hierarchy", p, NoId, NoId, NoId, "ok",
               UNION {{o} \cup ChildOrgsOf(o) : o \in OrgsHierarchyRows(p)})
    /\ UNCHANGED <<orgs, users, tasks, audit, auditFailures, tokens>>

\* GET /organizations/:id
OrgFindOne(p, o) ==
    /\ pc = "idle"
    /\ p \in Principals
    /\ IF o \notin LiveOrgs
       THEN Respond("org.read", p, o, NoId, NoId, "notfound", {})
       ELSE IF p.role # OWNER /\ o \notin OrgsAccessibleOrgIds(p)
       THEN Respond("org.read", p, o, o, NoId, "forbidden", {})
       ELSE Respond("org.read", p, o, o, NoId, "ok", OrgResponseIds(o))
    /\ UNCHANGED <<orgs, users, tasks, audit, auditFailures, tokens>>

\* the parentId of a create request: none, or an organization id
CreateOrgDtos == [parentId : OrgIds \cup {NoId}]

\* a create that accepts any existing parent
OrgCreateUnderAnyParent(p, data) ==
    /\ pc = "idle"
    /\ p \in Principals
    /\ IF ~RolesGuardCanActivate({OWNER}, p) \/ p.role # OWNER
       THEN /\ Respond("org.create", p, NoId, NoId, NoId, "forbidden", {})
            /\ UNCHANGED <<orgs, audit, auditFailures>>
       ELSE IF data.parentId # NoId /\ data.parentId \notin LiveOrgs
       THEN /\ Respond("org.create", p, NoId, NoId, NoId, "notfound", {})
            /\ UNCHANGED <<orgs, audit, auditFailures>>
       ELSE /\ FreeOrgIds # {}
            /\ AuditRoom
            /\ LET id == SetMin(FreeOrgIds) IN
                /\ orgs' = [orgs EXCEPT ![id] = Org(data.parentId)]
                /\ AuditLog(LogEntry("ORGANIZATION_CREATED", "organization", id,
                                     p.sub, p.email, p.organizationId, TRUE))
                /\ RespondLogged("org.create", p, id, id, NoId, "ok", {id})
    /\ UNCHANGED <<users, tasks, tokens>>

\* POST /organizations   @Roles(OWNER)
OrgCreate(p, data) ==
    /\ pc = "idle"
    /\ p \in Principals
    /\ IF ~RolesGuardCanActivate({OWNER}, p) \/ p.role # OWNER
       THEN /\ Respond("org.create", p, NoId, NoId, NoId, "forbidden", {})
            /\ UNCHANGED <<orgs, audit, auditFailures>>
       ELSE IF data.parentId # NoId /\ data.parentId \notin LiveOrgs
       THEN /\ Respond("org.create", p, NoId, NoId, NoId, "notfound", {})
            /\ UNCHANGED <<orgs, audit, auditFailures>>
       ELSE IF data.parentId # NoId /\ orgs[data.parentId].parentId # NoId
       THEN /\ Respond("org.create", p, NoId, data.parentId, NoId, "badrequest", {})
            /\ UNCHANGED <<orgs, audit, auditFailures>>
       ELSE /\ FreeOrgIds # {}
            /\ AuditRoom
            /\ LET id == SetMin(FreeOrgIds) IN
                /\ orgs' = [orgs EXCEPT ![id] = Org(data.parentId)]
                /\ AuditLog(LogEntry("ORGANIZATION_CREATED", "organization", id,
                                     p.sub, p.email, p.organizationId, TRUE))
                /\ RespondLogged("org.create", p, id, id, NoId, "ok", {id})
    /\ UNCHANGED <<users, tasks, tokens>>

\* the name of an update request (NULL when left out)
UpdateOrgDtos == [name : {"renamed", NULL}]

\* PUT /organizations/:id   @Roles(OWNER)
OrgUpdate(p, o, data) ==
    /\ pc = "idle"
    /\ p \in Principals
    /\ IF ~RolesGuardCanActivate({OWNER}, p) \/ p.role # OWNER
       THEN /\ Respond("org.update", p, o, NoId, NoId, "forbidden", {})
            /\ UNCHANGED <<orgs, audit, auditFailures>>
       ELSE IF o \notin LiveOrgs
       THEN /\ Respond("org.update", p, o, NoId, NoId, "notfound", {})
            /\ UNCHANGED <<orgs, audit, auditFailures>>
       ELSE /\ AuditRoom
            /\ orgs' = [orgs EXCEPT ![o].name =
                    IF data.name # NULL THEN data.name ELSE @]
            /\ AuditLog(LogEntry("ORGANIZATION_UPDATED", "organization", o,
                                 p.sub, p.email, p.organizationId, TRUE))
            /\ RespondLogged("org.update", p, o, o, NoId, "ok", {o})
    /\ UNCHANGED <<users, tasks, tokens>>

\* DELETE /organizations/:id   @Roles(OWNER)
OrgRemove(p, o) ==
    /\ pc = "idle"
    /\ p \in Principals
    /\ IF ~RolesGuardCanActivate({OWNER}, p) \/ p.role # OWNER
       THEN /\ Respond("org.delete", p, o, NoId, NoId, "forbidden", {})
            /\ UNCHANGED <<orgs, audit, auditFailures>>
       ELSE IF o \notin LiveOrgs
       THEN /\ Respond("org.delete", p, o, NoId, NoId, "notfound", {})
            /\ UNCHANGED <<orgs, audit, auditFailures>>
       ELSE IF ChildOrgsOf(o) # {}
       THEN /\ Respond("org.delete", p, o, o, NoId, "badrequest", {})
            /\ UNCHANGED <<orgs, audit, auditFailures>>
       ELSE IF {u \in LiveUsers : users[u].organizationId = o} # {}
       THEN /\ Respond("org.delete", p, o, o, NoId, "badrequest", {})
            /\ UNCHANGED <<orgs, audit, auditFailures>>
       ELSE /\ AuditRoom
            /\ orgs' = [orgs EXCEPT ![o].state = "gone"]
            /\ AuditLog(LogEntry("ORGANIZATION_DELETED", "organization", o,
                                 p.sub, p.email, p.organizationId, TRUE))
            /\ RespondLogged("org.delete", p, o, o, NoId, "ok", {o})
    /\ UNCHANGED <<users, tasks, tokens>>

OrgRequests ==
    \/ pc = "idle" /\ \E p \in tokens : OrgFindAll(p)
    \/ pc = "idle" /\ \E p \in tokens : OrgGetHierarchy(p)
    \/ pc = "idle" /\ \E p \in tokens, o \in OrgIds : OrgFindOne(p, o)
    \/ pc = "idle" /\ \E p \in tokens, data \in CreateOrgDtos : OrgCreate(p, data)
    \/ pc = "idle" /\ \E p \in tokens, o \in OrgIds, data \in UpdateOrgDtos : OrgUpdate(p, o, data)
    \/ pc = "idle" /\ \E p \in tokens, o \in OrgIds : OrgRemove(p, o)

(***************************************************************************)
(* AuthService / AuthController                                            *)
(***************************************************************************)
\* the e-mail addresses a login or registration request submits
LoginEmails == {users[u].email : u \in LiveUsers} \cup {"U3@x", "Nobody@x"}

\* request.user of POST /auth/login: no token, the e-mail address of the
\* LoginDto is all the caller presents
Claimed(email) == [NoPrincipal EXCEPT !.email = email]

\* a LOGIN_FAILED entry that records the lower-cased address
LoginUnknownEntryLowerCased(email) ==
    LogEntry("LOGIN_FAILED", "auth", NoId, NoId, toLowerCase(email), NoId, FALSE)

\* the entry AuthService.login logs when no user has the e-mail address
LoginUnknownEntry(email) ==
    LogEntry("LOGIN_FAILED", "auth", NoId, NoId, email, NoId, FALSE)

\* a login that skips the isActive test
AuthLoginIgnoringActive(email, passwordValid) ==
    /\ pc = "idle"
    /\ AuditRoom
    /\ LET found == UsersByEmail(toLowerCase(email)) IN
       IF found = {}
       THEN /\ AuditLog(LoginUnknownEntry(email))
            /\ RespondLogged("auth.login", Claimed(email), NoId, NoId, NoId, "unauthorized", {})
            /\ UNCHANGED tokens
       ELSE LET u == CHOOSE x \in found : TRUE IN
            IF ~passwordValid
            THEN /\ AuditLog(LogEntry("LOGIN_FAILED", "auth", NoId, u, users[u].email,
                                      users[u].organizationId, FALSE))
                 /\ RespondLogged("auth.login", Claimed(email), u, NoId, NoId, "unauthorized", {})
                 /\ UNCHANGED tokens
            ELSE /\ AuditLog(LogEntry("LOGIN", "auth", NoId, u, users[u].email,
                                      users[u].organizationId, TRUE))
                 /\ tokens' = IF AuditStored THEN tokens \cup {Payload(u)} ELSE tokens
                 /\ RespondLogged("auth.login", Claimed(email), u, NoId, NoId, "ok", {u})
    /\ UNCHANGED <<orgs, users, tasks>>

\* POST /auth/login; passwordValid is the result of user.validatePassword
AuthLogin(email, passwordValid) ==
    /\ pc = "idle"
    /\ AuditRoom
    /\ LET found == UsersByEmail(toLowerCase(email)) IN
       IF found = {}
       THEN /\ AuditLog(LoginUnknownEntry(email))
            /\ RespondLogged("auth.login", Claimed(email), NoId, NoId, NoId, "unauthorized", {})
            /\ UNCHANGED tokens
       ELSE LET u == CHOOSE x \in found : TRUE IN
            IF ~users[u].isActive
            THEN /\ AuditLog(LogEntry("LOGIN_FAILED", "auth", NoId, u, users[u].email,
                                      users[u].organizationId, FALSE))
                 /\ RespondLogged("auth.login", Claimed(email), u, NoId, NoId, "unauthorized", {})
                 /\ UNCHANGED tokens
            ELSE IF ~passwordValid
            THEN /\ AuditLog(LogEntry("LOGIN_FAILED", "auth", NoId, u, users[u].email,
                                      users[u].organizationId, FALSE))
                 /\ RespondLogged("auth.login", Claimed(email), u, NoId, NoId, "unauthorized", {})
                 /\ UNCHANGED tokens
            ELSE /\ AuditLog(LogEntry("LOGIN", "auth", NoId, u, users[u].email,
                                      users[u].organizationId, TRUE))
                 /\ tokens' = IF AuditStored THEN tokens \cup {Payload(u)} ELSE tokens
                 /\ RespondLogged("auth.login", Claimed(email), u, NoId, NoId, "ok", {u})
    /\ UNCHANGED <<orgs, users, tasks>>

\* an organizationId that names no row of the organizations table
GhostOrg == MaxOrgs + 1

\* the RegisterDto values of the model; its organizationId is any string
RegisterEmails == {"new@x", "New@x", "U3@x"}
RegisterDtos == [email : RegisterEmails,
                 organizationId : {o \in OrgIds : orgs[o].state # "free"} \cup {GhostOrg}]

\* POST /auth/register
AuthRegister(dto) ==
    /\ pc = "idle"
    /\ IF UsersByEmail(toLowerCase(dto.email)) # {}
       THEN /\ Respond("auth.register", NoPrincipal, NoId, dto.organizationId, NoId,
                       "conflict", {})
            /\ UNCHANGED <<users, audit, auditFailures>>
       ELSE \/ /\ FreeUserIds # {}
               /\ AuditRoom
               /\ LET id == SetMin(FreeUserIds) IN
                   /\ users' = [users EXCEPT ![id] =
                           User(toLowerCase(dto.email), VIEWER, dto.organizationId)]
                   /\ AuditLog(LogEntry("USER_REGISTERED", "user", id, id,
                                        toLowerCase(dto.email), dto.organizationId, TRUE))
                   /\ RespondLogged("auth.register", NoPrincipal, id, dto.organizationId, id,
                              "ok", {id})
            \/ /\ StoreMayRefuse(dto.organizationId)
               /\ Respond("auth.register", NoPrincipal, NoId, dto.organizationId, NoId,
                          "constraint", {})
               /\ UNCHANGED <<users, audit, auditFailures>>
    /\ UNCHANGED <<orgs, tasks, tokens>>

\* POST /auth/logout: the handler returns its response and does nothing else
AuthLogout(p) ==
    /\ pc = "idle"
    /\ p \in Principals
    /\ Respond("auth.logout", p, NoId, NoId, NoId, "ok", {})
    /\ UNCHANGED <<orgs, users, tasks, audit, auditFailures, tokens>>

AuthRequests ==
    \/ pc = "idle" /\ \E email \in LoginEmails, passwordValid \in BOOLEAN : AuthLogin(email, passwordValid)
    \/ pc = "idle" /\ \E dto \in RegisterDtos : AuthRegister(dto)
    \/ pc = "idle" /\ \E p \in tokens : AuthLogout(p)

(***************************************************************************)
(* AuditService reads / AuditController                                     *)
(***************************************************************************)
\* the rows of audit_logs, named by their place in the insertion order
AuditIds == DOMAIN audit

\* the query of GET /audit-log: the filters AuditService.findAll reads
\* (action, resource, userId, startDate, endDate) and the success flag of
\* the controller's AuditLogQueryDto, which AuditQueryOptions does not
\* declare and findAll never reads; a query supplies at most MaxFilters
AuditQueryValues ==
    [action : {NULL, "LOGIN_FAILED"}, resource : {NULL, "task"},
     userId : {NoId, 2}, startDate : {NoDate, 2}, endDate : {NoDate, 1},
     success : {NULL, "false"}]

SuppliedFilters(options) ==
    Cardinality({f \in {"action", "resource", "success"} : options[f] # NULL})
    + Cardinality({f \in {"userId", "startDate", "endDate"} : options[f] # NoId})

AuditQueryDtos == {options \in AuditQueryValues : SuppliedFilters(options) <= MaxFilters}

\* an audit read that adds no organization condition
AuditOrgFilterOff(row, currentUser) == TRUE

\* the organization condition every AuditService read adds for a caller
\* that is not an OWNER: audit.organization_id = currentUser.organizationId
AuditOrgFilter(row, currentUser) ==
    currentUser.role # OWNER => row.organizationId = currentUser.organizationId

\* the WHERE clause of AuditService.findAll(options, currentUser)
AuditFindAllMatches(options, currentUser) ==
    {i \in AuditIds :
        /\ AuditOrgFilter(audit[i], currentUser)
        /\ options.action # NULL => audit[i].action = options.action
        /\ options.resource # NULL => audit[i].resource = options.resource
        /\ options.userId # NoId => audit[i].userId = options.userId
        /\ options.startDate # NoDate => audit[i].createdAt >= options.startDate
        /\ options.endDate # NoDate => audit[i].createdAt <= options.endDate}

\* the WHERE clause of AuditService.findByResource
AuditFindByResourceMatches(resourceType, resourceId, currentUser) ==
    {i \in AuditIds :
        /\ audit[i].resource = resourceType
        /\ audit[i].resourceId = resourceId
        /\ AuditOrgFilter(audit[i], currentUser)}

\* the WHERE clause of AuditService.findByUser
AuditFindByUserMatches(userId, currentUser) ==
    {i \in AuditIds :
        /\ audit[i].userId = userId
        /\ AuditOrgFilter(audit[i], currentUser)}

\* the WHERE clause of AuditService.getLoginHistory
AuditLoginHistoryMatches(userId, currentUser) ==
    {i \in AuditIds :
        /\ audit[i].userId = userId
        /\ audit[i].action \in {"LOGIN", "LOGOUT", "LOGIN_FAILED"}
        /\ AuditOrgFilter(audit[i], currentUser)}

\* failed logins restricted to the caller's organization for every role
AuditFailedLoginsOwnOrgOnly(currentUser) ==
    {i \in AuditIds :
        /\ audit[i].action = "LOGIN_FAILED"
        /\ audit[i].success = FALSE
        /\ audit[i].organizationId = currentUser.organizationId}

\* the WHERE clause of AuditService.getFailedLogins
AuditFailedLoginsMatches(currentUser) ==
    {i \in AuditIds :
        /\ audit[i].action = "LOGIN_FAILED"
        /\ audit[i].success = FALSE
        /\ AuditOrgFilter(audit[i], currentUser)}

\* orderBy('audit.created_at', 'DESC') with no second key: every order of
\* the matching rows in which created_at never increases; the order of rows
\* with equal created_at is whatever the query plan yields
AuditOrderings(rows) ==
    {seq \in [1..Cardinality(rows) -> rows] :
        /\ \A i, j \in DOMAIN seq : i # j => seq[i] # seq[j]
        /\ \A i, j \in DOMAIN seq : i < j =>
                audit[seq[i]].createdAt >= audit[seq[j]].createdAt}

\* take(n) / limit(n)
Take(seq, n) == SubSeq(seq, 1, IF Len(seq) < n THEN Len(seq) ELSE n)

\* GET /audit-log -> AuditService.findAll(options, currentUser), page 1 of
\* the default page size; @Roles(OWNER, ADMIN) on the controller class
AuditFindAll(p, options) ==
    /\ pc = "idle"
    /\ p \in Principals
    /\ IF ~RolesGuardCanActivate({OWNER, ADMIN}, p)
       THEN RespondQuery("audit.list", p, options, "forbidden", <<>>)
       ELSE \E rows \in AuditOrderings(AuditFindAllMatches(options, p)) :
                RespondQuery("audit.list", p, options, "ok",
                             Take(rows, FindAllLimit))
    /\ UNCHANGED <<orgs, users, tasks, audit, auditFailures, tokens>>

\* GET /audit-log/resource/:resourceType/:resourceId -> AuditService.findByResource
AuditFindByResource(p, resourceType, resourceId) ==
    /\ pc = "idle"
    /\ p \in Principals
    /\ IF ~RolesGuardCanActivate({OWNER, ADMIN}, p)
       THEN Respond("audit.byResource", p, resourceId, NoId, NoId, "forbidden", <<>>)
       ELSE \E rows \in AuditOrderings(
                    AuditFindByResourceMatches(resourceType, resourceId, p)) :
                Respond("audit.byResource", p, resourceId, NoId, NoId, "ok", rows)
    /\ UNCHANGED <<orgs, users, tasks, audit, auditFailures, tokens>>

\* GET /audit-log/user/:userId -> AuditService.findByUser
AuditFindByUser(p, userId) ==
    /\ pc = "idle"
    /\ p \in Principals
    /\ IF ~RolesGuardCanActivate({OWNER, ADMIN}, p)
       THEN Respond("audit.byUser", p, userId, NoId, NoId, "forbidden", <<>>)
       ELSE \E rows \in AuditOrderings(AuditFindByUserMatches(userId, p)) :
                Respond("audit.byUser", p, userId, NoId, NoId, "ok",
                        Take(rows, FindByUserLimit))
    /\ UNCHANGED <<orgs, users, tasks, audit, auditFailures, tokens>>

\* GET /audit-log/login-history/:userId -> AuditService.getLoginHistory
AuditGetLoginHistory(p, userId) ==
    /\ pc = "idle"
    /\ p \in Principals
    /\ IF ~RolesGuardCanActivate({OWNER, ADMIN}, p)
       THEN Respond("audit.loginHistory", p, userId, NoId, NoId, "forbidden", <<>>)
       ELSE \E rows \in AuditOrderings(AuditLoginHistoryMatches(userId, p)) :
                Respond("audit.loginHistory", p, userId, NoId, NoId, "ok",
                        Take(rows, LoginHistoryLimit))
    /\ UNCHANGED <<orgs, users, tasks, audit, auditFailures, tokens>>

\* GET /audit-log/failed-logins -> AuditService.getFailedLogins;
\* @Roles(OWNER) on the handler overrides the roles of the class
AuditGetFailedLogins(p) ==
    /\ pc = "idle"
    /\ p \in Principals
    /\ IF ~RolesGuardCanActivate({OWNER}, p)
       THEN Respond("audit.failedLogins", p, NoId, NoId, NoId, "forbidden", <<>>)
       ELSE \E rows \in AuditOrderings(AuditFailedLoginsMatches(p)) :
                Respond("audit.failedLogins", p, NoId, NoId, NoId, "ok",
                        Take(rows, FailedLoginsLimit))
    /\ UNCHANGED <<orgs, users, tasks, audit, auditFailures, tokens>>

\* the users the audit routes are asked about
AuditUserIds == {2, 5}

AuditRequests ==
    \/ pc = "idle" /\ \E p \in tokens, options \in AuditQueryDtos : AuditFindAll(p, options)
    \/ pc = "idle" /\ \E p \in tokens, t \in {1, 2} : AuditFindByResource(p, "task", t)
    \/ pc = "idle" /\ \E p \in tokens, u \in AuditUserIds : AuditFindByUser(p, u)
    \/ pc = "idle" /\ \E p \in tokens, u \in AuditUserIds : AuditGetLoginHistory(p, u)
    \/ pc = "idle" /\ \E p \in tokens : AuditGetFailedLogins(p)

\* the entries the services hand to AuditService.log in the model of the
\* audit service alone: failed and successful logins and task updates of an
\* ADMIN of a child organization, of its sibling and of their parent, and
\* the failed login of an e-mail address that matches no user
AuditActors == {2, 4, 5}

AuditEntryInputs ==
    {LogEntry("LOGIN_FAILED", "auth", NoId, NoId, "ghost@x", NoId, FALSE)}
    \cup {LogEntry("LOGIN_FAILED", "auth", NoId, u, users[u].email,
                   users[u].organizationId, FALSE) : u \in AuditActors}
    \cup {LogEntry("LOGIN", "auth", NoId, u, users[u].email,
                   users[u].organizationId, TRUE) : u \in AuditActors}
    \cup {LogEntry("TASK_UPDATED", "task", 1, u, users[u].email,
                   users[u].organizationId, TRUE) : u \in AuditActors}

\* AuditService.log(entry) called with one of these entries
AuditServiceLog(entry) ==
    /\ pc = "idle"
    /\ Len(audit) + auditFailures < MaxAuditLog
    /\ AuditLog(entry)
    /\ RespondLogged("audit.log", NoPrincipal, NoId, NoId, NoId, "ok", <<>>)
    /\ UNCHANGED <<orgs, users, tasks, tokens>>

Next ==
    \/ TaskRequests
    \/ UserRequests
    \/ OrgRequests
    \/ AuthRequests
    \/ AuditRequests
    \/ Return

Spec == Init /\ [][Next]_vars

\* the audit service alone: entries appended by AuditService.log and the
\* five reads of the audit controller
NextAudit ==
    \/ pc = "idle" /\ \E entry \in AuditEntryInputs : AuditServiceLog(entry)
    \/ AuditRequests
    \/ Return

SpecAudit == Init /\ [][NextAudit]_vars

\* the endpoints that change a task, a user or an organization, and
\* registration, called by the OWNER and by the ADMIN and the VIEWER of a child
\* organization with one request body per endpoint
MutationCallers == {p \in tokens : p.sub \in {1, 2, 3}}

NextMutations ==
    \/ pc = "idle" /\ \E p \in MutationCallers : TaskCreate(p)
    \/ pc = "idle" /\ \E p \in MutationCallers, t \in TaskIds : TaskUpdate(p, t, [status |-> DONE])
    \/ pc = "idle" /\ \E p \in MutationCallers, t \in TaskIds : TaskRemove(p, t)
    \/ pc = "idle" /\ \E p \in MutationCallers, t \in TaskIds : TaskReorder(p, <<t>>)
    \/ pc = "idle" /\ \E p \in MutationCallers :
            UserCreate(p, [email |-> "new@x", role |-> VIEWER, organizationId |-> 2])
    \/ pc = "idle" /\ \E p \in MutationCallers, u \in UserIds :
            UserUpdate(p, u, [role |-> NULL, isActive |-> "false"])
    \/ pc = "idle" /\ \E p \in MutationCallers, u \in UserIds : UserRemove(p, u)
    \/ pc = "idle" /\ \E p \in MutationCallers, data \in CreateOrgDtos : OrgCreate(p, data)
    \/ pc = "idle" /\ \E p \in MutationCallers, o \in OrgIds : OrgUpdate(p, o, [name |-> "renamed"])
    \/ pc = "idle" /\ \E p \in MutationCallers, o \in OrgIds : OrgRemove(p, o)
    \/ pc = "idle" /\ AuthRegister([email |-> "new@x", organizationId |-> 3])
    \/ Return

SpecMutations == Init /\ [][NextMutations]_vars

\* login and logout, with the two audit reads about logins
NextLogins ==
    \/ pc = "idle" /\ \E email \in LoginEmails, passwordValid \in BOOLEAN : AuthLogin(email, passwordValid)
    \/ pc = "idle" /\ \E p \in tokens : AuthLogout(p)
    \/ pc = "idle" /\ \E p \in tokens, u \in AuditUserIds : AuditGetLoginHistory(p, u)
    \/ pc = "idle" /\ \E p \in tokens : AuditGetFailedLogins(p)
    \/ Return

SpecLogins == Init /\ [][NextLogins]_vars

\* login next to the requests that deactivate and reactivate an account
AccountIds == {3, 7}

NextAccounts ==
    \/ pc = "idle" /\ \E email \in LoginEmails, passwordValid \in BOOLEAN : AuthLogin(email, passwordValid)
    \/ pc = "idle" /\ \E p \in MutationCallers, u \in AccountIds : UserRemove(p, u)
    \/ pc = "idle" /\ \E p \in MutationCallers, u \in AccountIds, active \in {"true", "false"} :
            UserUpdate(p, u, [role |-> NULL, isActive |-> active])
    \/ Return

SpecAccounts == Init /\ [][NextAccounts]_vars

\* the organization endpoints alone
NextOrgs ==
    \/ OrgRequests
    \/ Return

SpecOrgs == Init /\ [][NextOrgs]_vars

\* the task endpoints alone, over the seeded users and organizations; an
\* update marks the task done and a reorder names one task
NextTasks ==
    \/ pc = "idle" /\ \E p \in tokens : TaskCreate(p)
    \/ pc = "idle" /\ \E p \in tokens, t \in TaskIds : TaskFindOne(p, t)
    \/ pc = "idle" /\ \E p \in tokens, t \in TaskIds : TaskUpdate(p, t, [status |-> DONE])
    \/ pc = "idle" /\ \E p \in tokens, t \in TaskIds : TaskRemove(p, t)
    \/ pc = "idle" /\ \E p \in tokens, t \in TaskIds : TaskReorder(p, <<t>>)
    \/ pc = "idle" /\ \E p \in tokens, query \in TaskQueryDtos : TaskFindAll(p, query)
    \/ pc = "idle" /\ \E p \in tokens : TaskGetStats(p)
    \/ Return

SpecTasks == Init /\ [][NextTasks]_vars

\* the endpoints that act on one task, one user or one organization; an
\* update marks the task done or deactivates the user
NextResources ==
    \/ pc = "idle" /\ \E p \in tokens, t \in TaskIds : TaskFindOne(p, t)
    \/ pc = "idle" /\ \E p \in tokens, t \in TaskIds : TaskUpdate(p, t, [status |-> DONE])
    \/ pc = "idle" /\ \E p \in tokens, t \in TaskIds : TaskRemove(p, t)
    \/ pc = "idle" /\ \E p \in tokens, u \in UserIds : UserFindOne(p, u)
    \/ pc = "idle" /\ \E p \in tokens, u \in UserIds : UserUpdate(p, u, [role |-> NULL, isActive |-> "false"])
    \/ pc = "idle" /\ \E p \in tokens, u \in UserIds : UserRemove(p, u)
    \/ pc = "idle" /\ \E p \in tokens, o \in OrgIds : OrgFindOne(p, o)
    \/ Return

SpecResources == Init /\ [][NextResources]_vars

\* hasPermission alone, on every pair of a role string and a permission
InitPermissions ==
    /\ orgs = InitOrgs
    /\ users = InitUsers
    /\ tasks = InitTasks
    /\ audit = <<>>
    /\ auditFailures = 0
    /\ tokens = {}
    /\ pc = "idle"
    /\ last = NoRequest
    /\ permCheck \in [role : RoleInputs, permission : Permission, result : {"pending"}]
    /\ dashboard = NoDashboard

NextPermissions ==
    \/ HasPermissionCall

SpecPermissions == InitPermissions /\ [][NextPermissions]_vars

TypeOK ==
    /\ pc \in {"idle", "responded"}
    /\ Len(audit) + auditFailures <= MaxAudit + MaxAuditLog
    /\ auditFailures \in 0..(MaxAudit + MaxAuditLog)

(***************************************************************************)
(* Organization scope                                                      *)
(***************************************************************************)

\* a caller of the given role placed in the given organization
ScopePrincipal(role, orgId) ==
    [sub |-> NoId, email |-> NULL, role |-> role, organizationId |-> orgId]

\* the live (parent, child) pairs of the two-level hierarchy
ParentChildPairs ==
    {pair \in LiveOrgs \X LiveOrgs :
        /\ orgs[pair[1]].parentId = NoId
        /\ orgs[pair[2]].parentId = pair[1]}

\* C1: access flows only downward: for a parent organization A and its child
\* B, the scope every service resolves for a non-OWNER caller in A contains A
\* and B, and the scope it resolves for a non-OWNER caller in B is exactly {B}
\* (the task, the user and the organization service alike).
C1_ScopeFlowsDownOnly ==
    \A pair \in ParentChildPairs : \A role \in {ADMIN, VIEWER} :
        LET inA == ScopePrincipal(role, pair[1])
            inB == ScopePrincipal(role, pair[2])
        IN  /\ {pair[1], pair[2]} \subseteq TasksAccessibleOrgIds(inA)
            /\ TasksAccessibleOrgIds(inB) = {pair[2]}
            /\ {pair[1], pair[2]} \subseteq UsersAccessibleOrgIds(inA)
            /\ UsersAccessibleOrgIds(inB) = {pair[2]}
            /\ {pair[1], pair[2]} \subseteq OrgsAccessibleOrgIds(inA)
            /\ OrgsAccessibleOrgIds(inB) = {pair[2]}

\* the part of C1 the task and user services do satisfy
ScopeFlowsDownInTasksAndUsers ==
    \A pair \in ParentChildPairs : \A role \in {ADMIN, VIEWER} :
        LET inA == ScopePrincipal(role, pair[1])
            inB == ScopePrincipal(role, pair[2])
        IN  /\ {pair[1], pair[2]} \subseteq TasksAccessibleOrgIds(inA)
            /\ TasksAccessibleOrgIds(inB) = {pair[2]}
            /\ {pair[1], pair[2]} \subseteq UsersAccessibleOrgIds(inA)
            /\ UsersAccessibleOrgIds(inB) = {pair[2]}

\* the other children of the parent of organization b
SiblingsOf(b) ==
    {c \in OrgIds : /\ c # b
                    /\ orgs[c].state # "free"
                    /\ b \in OrgIds
                    /\ orgs[b].parentId # NoId
                    /\ orgs[c].parentId = orgs[b].parentId}

\* the organization of every task, user and organization a granted
\* read, update or delete request has disclosed, changed or removed
GrantedOrgs ==
    IF last.outcome # "ok" THEN {}
    ELSE IF last.op \in {"task.read", "task.update", "task.delete",
                         "user.read", "user.update", "user.delete"}
         THEN {last.targetOrg}
    ELSE IF last.op \in {"task.list", "task.stats", "task.reorder"}
         THEN {tasks[t].organizationId : t \in last.result}
    ELSE IF last.op = "user.list"
         THEN {users[u].organizationId : u \in last.result}
    ELSE IF last.op \in {"org.read", "org.list", "org.hierarchy",
                         "org.update", "org.delete"}
         THEN last.result
    ELSE {}

\* C2: sibling isolation: no request of a non-OWNER caller whose organization
\* is a child B is ever granted read, update or delete access to a task, a
\* user or an organization of another child C of the same parent.
C2_SiblingIsolation ==
    (pc = "responded" /\ last.principal.role # OWNER)
        => GrantedOrgs \cap SiblingsOf(last.principal.organizationId) = {}

\* the part of C2 that holds: the requests that go through checkTaskAccess
\* and checkUserAccess or through the task and user listings
SiblingIsolationOfCheckedRequests ==
    (/\ pc = "responded"
     /\ last.principal.role # OWNER
     /\ last.op \in {"task.read", "task.update", "task.delete", "task.list",
                     "task.stats", "user.read", "user.update", "user.delete",
                     "user.list"})
        => GrantedOrgs \cap SiblingsOf(last.principal.organizationId) = {}

\* the sibling's task moved by a reorder request
SiblingTaskNeverReordered ==
    (pc = "responded" /\ last.principal.role # OWNER /\ last.op = "task.reorder")
        => GrantedOrgs \cap SiblingsOf(last.principal.organizationId) = {}

\* the sibling's organization record returned with the parent's
SiblingOrgNeverDisclosed ==
    (/\ pc = "responded"
     /\ last.principal.role # OWNER
     /\ last.op \in {"org.read", "org.list", "org.hierarchy"})
        => GrantedOrgs \cap SiblingsOf(last.principal.organizationId) = {}

(***************************************************************************)
(* Task access decisions                                                   *)
(***************************************************************************)
TaskAccessOps == {"task.read", "task.update", "task.delete"}

\* a task read, update or delete request has been decided (the task exists)
TaskDecided ==
    /\ pc = "responded"
    /\ last.op \in TaskAccessOps
    /\ last.outcome \in {"ok", "forbidden"}

\* C3: for an ADMIN acting on a task it does not own, task read, update and
\* delete are allowed if and only if the task's organizationId is in the
\* scope resolved for the ADMIN's organization (the organization itself and
\* its children); an ADMIN of a child organization is therefore denied on a
\* task of the parent organization and allowed on a task of its own.
C3_AdminAllowedIffInScope ==
    (/\ TaskDecided
     /\ last.principal.role = ADMIN
     /\ last.targetOwner # last.principal.sub)
        => (last.outcome = "ok"
                <=> last.targetOrg \in getAccessibleOrgIds(last.principal.organizationId))

\* an ADMIN of a child organization has been denied on a task of the parent
C3_ChildAdminDeniedOnParentTask ==
    /\ TaskDecided
    /\ last.op = "task.delete"
    /\ last.principal.role = ADMIN
    /\ last.targetOwner # last.principal.sub
    /\ last.principal.organizationId \in LiveOrgs
    /\ orgs[last.principal.organizationId].parentId = last.targetOrg
    /\ last.outcome = "forbidden"

\* an ADMIN of a child organization has been allowed on a task of its own
\* organization that another user owns
ChildAdminAllowedOnOwnOrgTask ==
    /\ TaskDecided
    /\ last.op = "task.delete"
    /\ last.principal.role = ADMIN
    /\ last.targetOwner # last.principal.sub
    /\ orgs[last.principal.organizationId].parentId # NoId
    /\ last.targetOrg = last.principal.organizationId
    /\ last.outcome = "ok"

\* C4: OWNER global bypass: every task read, update or delete, every user
\* read, update or delete and every organization read requested by an OWNER
\* is allowed whenever the resource exists, whatever the resource's
\* organization and owner (an allowed update or delete answers with an error
\* only when the store refused its audit row).
C4_OwnerGlobalBypass ==
    (/\ pc = "responded"
     /\ last.principal.role = OWNER
     /\ last.op \in TaskAccessOps \cup {"user.read", "user.update", "user.delete",
                                        "org.read"})
        => /\ last.outcome \in {"ok", "notfound", "error"}
           /\ last.targetOrg # NoId => last.outcome \in {"ok", "error"}
           /\ last.outcome = "error" => auditFailures > 0

\* an OWNER has changed a user of an organization that is neither the
\* OWNER's own nor related to it
C4_OwnerUpdatedUnrelatedUser ==
    /\ pc = "responded"
    /\ last.principal.role = OWNER
    /\ last.op = "user.update"
    /\ last.outcome = "ok"
    /\ last.target # last.principal.sub
    /\ last.targetOrg \in LiveOrgs
    /\ last.targetOrg # last.principal.organizationId
    /\ orgs[last.targetOrg].parentId # last.principal.organizationId
    /\ orgs[last.principal.organizationId].parentId # last.targetOrg

\* an OWNER has read a task of an unrelated organization that another user owns
OwnerReadUnrelatedTask ==
    /\ pc = "responded"
    /\ last.principal.role = OWNER
    /\ last.op = "task.read"
    /\ last.outcome = "ok"
    /\ last.targetOwner # last.principal.sub
    /\ last.targetOrg \in LiveOrgs
    /\ last.targetOrg \notin getAccessibleOrgIds(last.principal.organizationId)

ViewerReadOwnTask ==
    /\ pc = "responded"
    /\ last.principal.role = VIEWER
    /\ last.op = "task.read"
    /\ last.outcome = "ok"
    /\ last.targetOwner = last.principal.sub

\* a VIEWER has listed its tasks while its organization holds a task of
\* another user that the listing leaves out
ViewerListingLeavesOthersOut ==
    /\ pc = "responded"
    /\ last.principal.role = VIEWER
    /\ last.op = "task.list"
    /\ last.result # {}
    /\ \E t \in LiveTasks : /\ tasks[t].organizationId = last.principal.organizationId
                            /\ tasks[t].userId # last.principal.sub
                            /\ t \notin last.result

(***************************************************************************)
(* Permission table                                                        *)
(***************************************************************************)
\* the permission table of the design, by role
PermissionTable(role) ==
    IF role = OWNER THEN Permission
    ELSE IF role = ADMIN
         THEN {"task:create", "task:read", "task:update", "task:delete",
               "user:create", "user:read", "user:update", "org:read", "audit:read"}
    ELSE IF role = VIEWER THEN {"task:read", "user:read", "org:read"}
    ELSE {}

\* C6: hasPermission(role, permission) returns true exactly for the pairs of
\* the permission table and false for every other pair; for a role value it
\* does not recognize it returns false and never throws.
C6_HasPermissionMatchesTable ==
    permCheck.result \notin {"none", "pending"}
        => /\ permCheck.result # "TypeError"
           /\ permCheck.result = "true"
                <=> permCheck.permission \in PermissionTable(toLowerCase(permCheck.role))

\* the part of C6 that holds: for the role values that are not names
\* inherited from Object.prototype the result is the table's
HasPermissionMatchesTableOnPlainRoles ==
    (/\ permCheck.result \notin {"none", "pending"}
     /\ toLowerCase(permCheck.role) \notin InheritedKeys)
        => /\ permCheck.result \in {"true", "false"}
           /\ permCheck.result = "true"
                <=> permCheck.permission \in PermissionTable(toLowerCase(permCheck.role))

\* hasPermission has answered false for a role outside the enum
UnknownRoleAnsweredFalse ==
    /\ permCheck.result = "false"
    /\ toLowerCase(permCheck.role) \notin Role

(***************************************************************************)
(* OWNER-exclusive capabilities                                            *)
(***************************************************************************)
\* this step handles a request of a caller with one of the given roles
RequestBy(roles) ==
    /\ pc = "idle"
    /\ pc' = "responded"
    /\ last'.principal.role \in roles

\* C7: user:delete, org:update and org:manage stay exclusive to OWNER: no
\* request of an ADMIN or VIEWER caller deactivates a user or creates,
\* updates or deletes an organization; the organization store and every
\* user's active flag are as they were before the request.
C7_OwnerExclusiveCapabilities ==
    [][RequestBy({ADMIN, VIEWER})
        => /\ orgs' = orgs
           /\ \A u \in LiveUsers : users[u].isActive => users'[u].isActive]_vars

\* the part of C7 that holds: the organization store, and the active flag of
\* every user other than the caller
OwnerExclusiveExceptOwnAccount ==
    [][RequestBy({ADMIN, VIEWER})
        => /\ orgs' = orgs
           /\ \A u \in LiveUsers \ {last'.principal.sub} :
                    users[u].isActive => users'[u].isActive]_vars

(***************************************************************************)
(* Role values outside the enum                                            *)
(***************************************************************************)
ResourceOps ==
    {"task.read", "task.update", "task.delete", "task.list", "task.stats",
     "user.read", "user.update", "user.delete", "user.list",
     "org.read", "org.list", "org.hierarchy", "org.update", "org.delete"}

\* C8: a caller whose role is none of owner, admin, viewer is failed closed:
\* none of its task, user or organization requests is granted, and the task
\* access check never decides for it the way it decides for an ADMIN.
C8_UnknownRoleFailsClosed ==
    /\ (pc = "responded" /\ last.principal.role \notin Role /\ last.op \in ResourceOps)
            => last.outcome # "ok"
    /\ \A p \in {q \in Principals : q.role \notin Role} :
            \A t \in LiveTasks : \A action \in {"read", "update", "delete"} :
                ~checkTaskAccess(tasks[t], p, action)

\* the part of C8 that holds: the routes that carry @Roles reject the caller
UnknownRoleRejectedByRolesGuard ==
    (/\ pc = "responded"
     /\ last.principal.role \notin Role
     /\ last.op \in {"user.list", "user.create", "user.delete",
                     "org.create", "org.update", "org.delete"})
        => last.outcome = "forbidden"

\* the ADMIN treatment on its own: a caller with a role outside the enum is
\* never allowed to delete a task
UnknownRoleNeverDeletesTask ==
    (pc = "responded" /\ last.principal.role \notin Role /\ last.op = "task.delete")
        => last.outcome # "ok"

(***************************************************************************)
(* Role check before self-access; VIEWER never mutates tasks               *)
(***************************************************************************)
\* C9: the role's permission is checked before self-access: a VIEWER cannot
\* update or delete a task it owns, a VIEWER cannot update its own user
\* record, and an ADMIN cannot delete its own account.
C9_RoleCheckPrecedesSelfAccess ==
    (pc = "responded" /\ last.target # NoId /\ last.targetOwner = last.principal.sub)
        => /\ (last.principal.role = VIEWER
                /\ last.op \in {"task.update", "task.delete", "user.update"})
                    => last.outcome # "ok"
           /\ (last.principal.role = ADMIN /\ last.op = "user.delete")
                    => last.outcome # "ok"

\* the part of C9 that holds: a VIEWER's own tasks and an ADMIN's own account
SelfAccessDeniedOnTasksAndDelete ==
    (pc = "responded" /\ last.target # NoId /\ last.targetOwner = last.principal.sub)
        => /\ (last.principal.role = VIEWER /\ last.op \in {"task.update", "task.delete"})
                    => last.outcome = "forbidden"
           /\ (last.principal.role \in {ADMIN, VIEWER} /\ last.op = "user.delete")
                    => last.outcome = "forbidden"

\* C10: a VIEWER holds no task:create, task:update or task:delete: no request
\* of a VIEWER caller ever adds, changes or removes a task.
C10_ViewerNeverMutatesTasks ==
    [][RequestBy({VIEWER}) => tasks' = tasks]_vars

\* the part of C10 that holds: a VIEWER's update and delete requests
ViewerUpdateAndDeleteLeaveTasks ==
    [][(RequestBy({VIEWER}) /\ last'.op \in {"task.update", "task.delete"})
            => (tasks' = tasks /\ last'.outcome # "ok")]_vars


(***************************************************************************)
(* Audit trail                                                             *)
(***************************************************************************)

\* the audit reads a non-OWNER can be served
ScopedAuditReads == {"audit.list", "audit.byUser", "audit.byResource",
                     "audit.loginHistory"}

\* the rows of a served audit read
ResultRows == {last.result[i] : i \in DOMAIN last.result}

C12_QueryReturnsScopeAndFilterMatches ==
    (/\ pc = "responded"
     /\ last.op = "audit.list"
     /\ last.outcome = "ok")
        => LET options == last.query
               InScope(i) ==
                    \/ last.principal.role = OWNER
                    \/ audit[i].organizationId
                            \in getAccessibleOrgIds(last.principal.organizationId)
               Matches(i) ==
                    /\ options.action # NULL => audit[i].action = options.action
                    /\ options.resource # NULL => audit[i].resource = options.resource
                    /\ options.userId # NoId => audit[i].userId = options.userId
                    /\ options.startDate # NoDate =>
                            audit[i].createdAt >= options.startDate
                    /\ options.endDate # NoDate =>
                            audit[i].createdAt <= options.endDate
                    /\ options.success # NULL =>
                            audit[i].success = (options.success = "true")
           IN  ResultRows = {i \in AuditIds : InScope(i) /\ Matches(i)}

\* every audit read of the controller
AuditReads == ScopedAuditReads \cup {"audit.failedLogins"}

\* C13: every audit read returns its rows newest first by creation
\* timestamp, and rows with equal timestamps in their insertion order.
C13_NewestFirstStableTies ==
    (/\ pc = "responded"
     /\ last.op \in AuditReads
     /\ last.outcome = "ok")
        => \A i, j \in DOMAIN last.result : i < j =>
                \/ audit[last.result[i]].createdAt > audit[last.result[j]].createdAt
                \/ /\ audit[last.result[i]].createdAt = audit[last.result[j]].createdAt
                   /\ last.result[i] < last.result[j]

\* the part of C13 the ORDER BY clause does give: no row is returned before
\* a row with a later creation timestamp
NewestFirstByTimestamp ==
    (/\ pc = "responded"
     /\ last.op \in AuditReads
     /\ last.outcome = "ok")
        => \A i, j \in DOMAIN last.result : i < j =>
                audit[last.result[i]].createdAt >= audit[last.result[j]].createdAt

AdminRefusedFailedLogins ==
    /\ pc = "responded"
    /\ last.op = "audit.failedLogins"
    /\ last.principal.role = ADMIN
    /\ last.outcome = "forbidden"
    /\ \E i \in AuditIds :
            /\ audit[i].action = "LOGIN_FAILED"
            /\ audit[i].organizationId = last.principal.organizationId

\* C15: a failure of the audit store during an append never fails the
\* operation that appends: the request whose audit row the store refused
\* still returns its normal result.
C15_AuditFailureNeverFailsCaller ==
    [][auditFailures' # auditFailures => last'.outcome # "error"]_vars

\* the parts of C15 the code does give: the write is tried once (no retry),
\* and what the handler saved before the refused audit write stays saved
AuditFailureKeepsMutationNoRetry ==
    [][auditFailures' # auditFailures =>
            /\ auditFailures' = auditFailures + 1
            /\ audit' = audit
            /\ last'.op = "task.create" => tasks'[last'.target].state = "live"
            /\ last'.op = "task.delete" => tasks'[last'.target].state = "gone"
            /\ last'.op = "user.delete" => ~users'[last'.target].isActive]_vars

\* a request is answered in this step with the given outcome
Answered(outcomes) ==
    /\ pc = "idle"
    /\ pc' = "responded"
    /\ last'.outcome \in outcomes

\* C16: every access check that ends in a denial results in exactly one
\* audit row with success = false, written before the request returns (or,
\* when the store refuses the row, in exactly one refused write).
C16_DenialsAreAudited ==
    [][Answered({"forbidden"}) =>
            \/ /\ Len(audit') = Len(audit) + 1
               /\ SubSeq(audit', 1, Len(audit)) = audit
               /\ audit'[Len(audit')].success = FALSE
               /\ auditFailures' = auditFailures
            \/ /\ audit' = audit
               /\ auditFailures' = auditFailures + 1]_vars

\* what the code does on a denial: the ForbiddenException is thrown and
\* no audit write is attempted
DenialsWriteNothing ==
    [][Answered({"forbidden"}) =>
            /\ audit' = audit
            /\ auditFailures' = auditFailures]_vars

\* the operations that change a task, a user or an organization
MutationOps == {"task.create", "task.update", "task.delete", "task.reorder",
                "user.create", "user.update", "user.delete",
                "org.create", "org.update", "org.delete", "auth.register"}

\* the audit row this step has appended
NewRow == audit'[Len(audit')]

\* this step has appended exactly one row to the trail
OneRowAppended ==
    /\ Len(audit') = Len(audit) + 1
    /\ SubSeq(audit', 1, Len(audit)) = audit

DeactivatedLoginLoggedAsFailure ==
    /\ pc = "responded"
    /\ last.op = "auth.login"
    /\ last.outcome = "unauthorized"
    /\ last.target \in LiveUsers
    /\ ~users[last.target].isActive
    /\ audit # <<>>
    /\ audit[Len(audit)].action = "LOGIN_FAILED"
    /\ audit[Len(audit)].userId = last.target

\* a login has returned a token and the trail ends with its LOGIN row
LoginTokenLogged ==
    /\ pc = "responded"
    /\ last.op = "auth.login"
    /\ last.outcome = "ok"
    /\ audit # <<>>
    /\ audit[Len(audit)].action = "LOGIN"
    /\ audit[Len(audit)].userId \in last.result

\* C19: the audit trail is append-only: in every step the stored sequence
\* extends the previous one, so no row is removed, none changes place and no
\* field of a stored row (its creation timestamp included) changes.
C19_AuditAppendOnly ==
    [][/\ Len(audit') >= Len(audit)
       /\ SubSeq(audit', 1, Len(audit)) = audit]_vars

\* a second row has been appended behind a stored one
C19_SecondRowAppended ==
    /\ pc = "responded"
    /\ last.op = "audit.log"
    /\ last.outcome = "ok"
    /\ Len(audit) >= 2
    /\ audit[1] # audit[2]

(***************************************************************************)
(* Organization hierarchy                                                  *)
(***************************************************************************)

\* C20: the organization hierarchy has depth at most two after any sequence
\* of creates, updates and deletes: an organization that has a parent has no
\* children and its parent has no parent; a create under a child
\* organization is rejected and stores nothing; no operation changes the
\* parentId of an organization.
C20_HierarchyDepthAtMostTwo ==
    /\ [](\A o \in LiveOrgs : orgs[o].parentId # NoId =>
                /\ ChildOrgsOf(o) = {}
                /\ orgs[o].parentId \in OrgIds
                /\ orgs[orgs[o].parentId].parentId = NoId)
    /\ [][/\ \A o \in OrgIds : orgs[o].state = "live" =>
                orgs'[o].parentId = orgs[o].parentId
          /\ (Answered({"ok", "error"}) /\ last'.op = "org.create"
                    /\ orgs' # orgs) =>
                \A o \in OrgIds : (orgs[o].state = "free" /\ orgs'[o].state = "live"
                                    /\ orgs'[o].parentId # NoId) =>
                        /\ orgs[orgs'[o].parentId].state = "live"
                        /\ orgs[orgs'[o].parentId].parentId = NoId
          /\ (Answered({"badrequest"}) /\ last'.op = "org.create") =>
                orgs' = orgs]_vars

\* an OWNER's create under a child organization has been rejected
C20_CreateUnderChildRejected ==
    /\ pc = "responded"
    /\ last.op = "org.create"
    /\ last.outcome = "badrequest"
    /\ last.targetOrg \in LiveOrgs
    /\ orgs[last.targetOrg].parentId # NoId

\* an OWNER has created a child under a root organization
ChildCreatedUnderRoot ==
    /\ pc = "responded"
    /\ last.op = "org.create"
    /\ last.outcome = "ok"
    /\ orgs[last.target].parentId \in LiveOrgs
    /\ orgs[orgs[last.target].parentId].parentId = NoId

(***************************************************************************)
(* Role rank checks                                                        *)
(***************************************************************************)

\* the arguments of one isRoleHigherOrEqual call and one RolesGuard check:
\* the roles a @Roles decorator can name, and a request with or without a user
InitRoleChecks ==
    /\ orgs = InitOrgs
    /\ users = InitUsers
    /\ tasks = InitTasks
    /\ audit = <<>>
    /\ auditFailures = 0
    /\ tokens = {}
    /\ pc = "idle"
    /\ last = NoRequest
    /\ permCheck \in [userRole : RoleValues, requiredRole : Role,
                      requiredRoles : SUBSET Role,
                      user : {NoPrincipal} \cup {ScopePrincipal(r, 1) : r \in RoleValues},
                      higher : {"pending"}, admitted : {"pending"}]
    /\ dashboard = NoDashboard

\* one call of isRoleHigherOrEqual
IsRoleHigherOrEqualCall ==
    /\ permCheck.higher = "pending"
    /\ permCheck' = [permCheck EXCEPT !.higher =
            IF isRoleHigherOrEqual(permCheck.userRole, permCheck.requiredRole)
            THEN "true" ELSE "false"]
    /\ UNCHANGED <<orgs, users, tasks, audit, auditFailures, tokens, pc, last, dashboard>>

\* one run of RolesGuard.canActivate: "true" admits, "false" is the
\* ForbiddenException
RolesGuardCall ==
    /\ permCheck.admitted = "pending"
    /\ permCheck' = [permCheck EXCEPT !.admitted =
            IF RolesGuardCanActivate(permCheck.requiredRoles, permCheck.user)
            THEN "true" ELSE "false"]
    /\ UNCHANGED <<orgs, users, tasks, audit, auditFailures, tokens, pc, last, dashboard>>

NextRoleChecks ==
    \/ IsRoleHigherOrEqualCall
    \/ RolesGuardCall

SpecRoleChecks == InitRoleChecks /\ [][NextRoleChecks]_vars

\* the rank the specification gives a role; a value outside the enum has none
RankOf(role) ==
    IF role = OWNER THEN 3 ELSE IF role = ADMIN THEN 2 ELSE IF role = VIEWER THEN 1 ELSE 0

AtLeast(userRole, requiredRole) ==
    /\ RankOf(userRole) > 0
    /\ RankOf(userRole) >= RankOf(requiredRole)

UserlessRequestRejected ==
    /\ permCheck.user = NoPrincipal
    /\ permCheck.requiredRoles = {VIEWER}
    /\ permCheck.admitted = "false"

(***************************************************************************)
(* Login                                                                   *)
(***************************************************************************)

\* the stored users whose address equals the submitted one when case is
\* ignored
MatchingUsers(email) ==
    {u \in LiveUsers : toLowerCase(users[u].email) = toLowerCase(email)}

MixedCaseLoginAccepted ==
    /\ last.op = "auth.login"
    /\ last.principal.email = "U3@x"
    /\ last.outcome = "ok"
    /\ last.result = {3}

(***************************************************************************)
(* Role assignment                                                         *)
(***************************************************************************)

\* the users that the step gives a role they did not have before
RoleGiven(roles) ==
    {u \in UserIds : /\ users'[u].state = "live"
                     /\ users'[u].role \in roles
                     /\ users[u].state = "free" \/ users[u].role # users'[u].role}

ByOwnerUserRequest ==
    /\ last'.op \in {"user.create", "user.update"}
    /\ last'.principal.role = OWNER

\* C23: only an OWNER creates OWNER or ADMIN users and only an OWNER changes
\* a user's role: every step that gives a user the role OWNER or ADMIN, or
\* changes a stored user's role, is a user creation or update requested by an
\* OWNER; self-registration and requests of others give VIEWER at most.
C23_OnlyOwnerGrantsRoles ==
    [][(RoleGiven({OWNER, ADMIN}) # {}
            \/ \E u \in LiveUsers : users'[u].role # users[u].role)
        => ByOwnerUserRequest]_vars

\* what holds of C23: the role OWNER is given by an OWNER only, a stored
\* user's role is changed by an OWNER only, and self-registration gives VIEWER
OnlyOwnerGrantsOwnerAndChangesRoles ==
    [][/\ (RoleGiven({OWNER}) # {}
                \/ \E u \in LiveUsers : users'[u].role # users[u].role)
            => ByOwnerUserRequest
       /\ (pc = "idle" /\ last'.op = "auth.register")
            => RoleGiven(RoleValues) \subseteq RoleGiven({VIEWER})]_vars

(***************************************************************************)
(* Task status workflow                                                    *)
(***************************************************************************)

\* VALID_STATUS_TRANSITIONS of the shared data library
VALID_STATUS_TRANSITIONS == [s \in TaskStatus |->
    IF s = TODO THEN {IN_PROGRESS, CANCELLED}
    ELSE IF s = IN_PROGRESS THEN {TODO, DONE, CANCELLED}
    ELSE IF s = DONE THEN {TODO, IN_PROGRESS}
    ELSE {TODO}]

\* C24: a task's status changes only along VALID_STATUS_TRANSITIONS: no step
\* moves a stored task from one status to a different status that the table
\* does not list for it.
C24_StatusFollowsTransitions ==
    [][\A t \in LiveTasks :
        (tasks'[t].state = "live" /\ tasks'[t].status # tasks[t].status)
            => tasks'[t].status \in VALID_STATUS_TRANSITIONS[tasks[t].status]]_vars

\* what holds of C24: a status changes only in a task update that the access
\* check allowed, and only to the status the request names
StatusChangesOnlyInAllowedUpdate ==
    [][\A t \in LiveTasks :
        tasks'[t].status # tasks[t].status
            => /\ last'.op = "task.update"
               /\ last'.target = t
               /\ last'.outcome \in {"ok", "error"}
               /\ checkTaskAccess(tasks[t], last'.principal, "update")]_vars

(***************************************************************************)
(* Logout                                                                  *)
(***************************************************************************)

\* C25: every authenticated logout request appends exactly one LOGOUT audit
\* entry for the acting user.
C25_LogoutIsAudited ==
    [][(pc = "idle" /\ last'.op = "auth.logout" /\ last'.outcome = "ok")
        => /\ Len(audit') + auditFailures' = Len(audit) + auditFailures + 1
           /\ AuditStored
                => /\ NewRow.action = "LOGOUT"
                   /\ NewRow.userId = last'.principal.sub]_vars

\* what the code does: a logout is answered and leaves the trail as it was,
\* and no row of the trail has the action LOGOUT
LogoutWritesNothing ==
    /\ [][(pc = "idle" /\ last'.op = "auth.logout")
            => UNCHANGED <<audit, auditFailures>>]_vars
    /\ [](\A i \in DOMAIN audit : audit[i].action # "LOGOUT")

(***************************************************************************)
(* Tasks outside the caller's scope                                        *)
(***************************************************************************)

\* the stored tasks whose organization is outside the scope of the caller
OutOfScopeTasks(user) ==
    {t \in LiveTasks : tasks[t].organizationId \notin getAccessibleOrgIds(user.organizationId)}

OutOfScopeTasksKeptByUpdateAndDelete ==
    [][(/\ pc = "idle"
        /\ last'.op \in {"task.update", "task.delete"}
        /\ last'.principal.role # OWNER)
        => \A t \in OutOfScopeTasks(last'.principal) : tasks'[t] = tasks[t]]_vars

(***************************************************************************)
(* Organization of created accounts                                        *)
(***************************************************************************)

\* the users the step stores
UsersStored == {u \in UserIds : users[u].state = "free" /\ users'[u].state = "live"}

\* C27: a user created by an ADMIN principal belongs to an organization
\* inside that ADMIN's scope (its own organization or, for a root, one of its
\* children), never to a sibling, parent or unrelated organization.
C27_AdminCreatesUsersInScope ==
    [][(/\ pc = "idle"
        /\ last'.op = "user.create"
        /\ last'.principal.role = ADMIN)
        => \A u \in UsersStored :
                users'[u].organizationId
                    \in getAccessibleOrgIds(last'.principal.organizationId)]_vars

\* what holds of account creation: only a caller whose token says OWNER or
\* ADMIN stores a user through POST /users
UsersCreatedByOwnerOrAdminOnly ==
    [][(pc = "idle" /\ last'.op = "user.create" /\ UsersStored # {})
        => last'.principal.role \in {OWNER, ADMIN}]_vars

(***************************************************************************)
(* Tokens issued before a change of the user store                         *)
(***************************************************************************)

\* C28: authorization follows the current user store: a request by a user
\* who has been deactivated is rejected, and a request by a user whose role
\* was changed is decided on the stored role, even when its token was issued
\* before the change.
C28_RequestsDecidedOnCurrentUsers ==
    [][(/\ pc = "idle"
        /\ pc' = "responded"
        /\ last'.op \notin {"auth.login", "auth.register"}
        /\ last'.principal.sub # NoId)
        => /\ ~users[last'.principal.sub].isActive
                => last'.outcome \in {"unauthorized", "forbidden"}
           /\ last'.principal.role = users[last'.principal.sub].role]_vars

\* what the code does: the token set only grows, and a token keeps the role
\* and organization it was signed with
TokensOutliveChanges ==
    [][tokens \subseteq tokens']_vars

(***************************************************************************)
(* Referential integrity of the organization graph                         *)
(***************************************************************************)

UsersOfOrg(o) == {u \in LiveUsers : users[u].organizationId = o}

ParentsExist ==
    \A o \in LiveOrgs : orgs[o].parentId # NoId => orgs[o].parentId \in LiveOrgs

DeletedOnlyWhenEmpty ==
    \A o \in LiveOrgs :
        orgs'[o].state # "live" => ChildOrgsOf(o) = {} /\ UsersOfOrg(o) = {}

OrgGraphIntegrityExceptNewAccounts ==
    /\ []ParentsExist
    /\ [][DeletedOnlyWhenEmpty]_vars
    /\ [][\A u \in UserIds :
            (users'[u].state = "live" /\ users'[u].organizationId \notin LiveOrgs)
                => \/ users[u].state = "live" /\ users[u].organizationId \notin LiveOrgs
                   \/ /\ last'.op \in {"auth.register", "user.create"}
                      /\ last'.targetOrg = users'[u].organizationId
                      /\ users[u].state = "free"]_vars

(***************************************************************************)
(* Dashboard session: AuthService, authInterceptor, authGuard               *)
(***************************************************************************)

\* the users a login response can carry: the seeded accounts that can log in
DashUsers == {[email |-> InitUsers[u].email, role |-> InitUsers[u].role] :
                u \in {v \in UserIds : InitUsers[v].state = "live" /\ InitUsers[v].isActive}}

\* the accessToken of a login response, named by the user it was issued to
AccessToken(user) == user.email

\* the routes behind canActivate: [authGuard]
ProtectedUrls == {"/dashboard", "/tasks", "/audit"}

\* AuthService.loadStoredUser, run by the constructor on a service whose
\* signal is null: the stored user is set when token and user are both stored
loadStoredUser(d) ==
    [d EXCEPT !.currentUserSignal =
        IF d.auth_token # NULL /\ d.current_user # NoUser
        THEN d.current_user ELSE NoUser,
              !.isLoadingSignal = FALSE]

\* the page is opened on a browser whose localStorage is empty or holds what
\* an earlier login stored
InitDashboard ==
    /\ orgs = InitOrgs
    /\ users = InitUsers
    /\ tasks = InitTasks
    /\ audit = <<>>
    /\ auditFailures = 0
    /\ tokens = {}
    /\ pc = "idle"
    /\ last = NoRequest
    /\ permCheck = NoPermCheck
    /\ \E stored \in DashUsers \cup {NoUser} :
        dashboard = loadStoredUser(
            [NoDashboard EXCEPT
                !.auth_token = IF stored = NoUser THEN NULL ELSE AccessToken(stored),
                !.current_user = stored])

\* AuthService.isAuthenticated, getCurrentUser, isAdminOrOwner, isOwner
isAuthenticated == dashboard.auth_token # NULL /\ dashboard.currentUserSignal # NoUser
getCurrentUser == dashboard.currentUserSignal
isAdminOrOwner == dashboard.currentUserSignal.role \in {ADMIN, OWNER}
isOwner == dashboard.currentUserSignal.role = OWNER

\* authInterceptor on a 401 response: both keys are removed from
\* localStorage and the router goes to /login
Interceptor401(d) ==
    [d EXCEPT !.auth_token = NULL, !.current_user = NoUser,
              !.url = "/login", !.returnUrl = NULL]

\* AuthService.clearAuth
clearAuth(d) ==
    [d EXCEPT !.auth_token = NULL, !.current_user = NoUser,
              !.currentUserSignal = NoUser]

\* AuthService.login is called: the request leaves and isLoading is set
DashLoginSubmit ==
    /\ ~dashboard.loginInFlight
    /\ dashboard' = [dashboard EXCEPT !.isLoadingSignal = TRUE, !.loginInFlight = TRUE]
    /\ UNCHANGED <<orgs, users, tasks, audit, auditFailures, tokens, pc, last, permCheck>>

\* the login request is answered 200 with the user's token: the tap of login
DashLoginOk(user) ==
    /\ dashboard.loginInFlight
    /\ dashboard' = [dashboard EXCEPT !.auth_token = AccessToken(user),
                                      !.current_user = user,
                                      !.currentUserSignal = user,
                                      !.isLoadingSignal = FALSE,
                                      !.loginInFlight = FALSE]
    /\ UNCHANGED <<orgs, users, tasks, audit, auditFailures, tokens, pc, last, permCheck>>

\* the login request is answered 401: the interceptor handles the error and
\* the tap of login never runs
DashLoginRefused ==
    /\ dashboard.loginInFlight
    /\ dashboard' = [Interceptor401(dashboard) EXCEPT !.loginInFlight = FALSE]
    /\ UNCHANGED <<orgs, users, tasks, audit, auditFailures, tokens, pc, last, permCheck>>

\* AuthService.logout
DashLogout ==
    /\ dashboard' = [clearAuth(dashboard) EXCEPT !.url = "/login", !.returnUrl = NULL]
    /\ UNCHANGED <<orgs, users, tasks, audit, auditFailures, tokens, pc, last, permCheck>>

\* any other API request of the dashboard answered 401 (an expired token)
DashRequest401 ==
    /\ dashboard.url \in ProtectedUrls
    /\ dashboard' = Interceptor401(dashboard)
    /\ UNCHANGED <<orgs, users, tasks, audit, auditFailures, tokens, pc, last, permCheck>>

\* navigation to a protected route through authGuard: without a token the
\* router goes to /login and keeps the attempted url as returnUrl
DashNavigate(url) ==
    /\ dashboard' = IF dashboard.auth_token # NULL
                    THEN [dashboard EXCEPT !.url = url, !.returnUrl = NULL]
                    ELSE [dashboard EXCEPT !.url = "/login", !.returnUrl = url]
    /\ UNCHANGED <<orgs, users, tasks, audit, auditFailures, tokens, pc, last, permCheck>>

\* the page is loaded again: a new AuthService is constructed and a request
\* in flight is dropped
DashReload ==
    /\ dashboard' = [loadStoredUser(dashboard) EXCEPT !.loginInFlight = FALSE]
    /\ UNCHANGED <<orgs, users, tasks, audit, auditFailures, tokens, pc, last, permCheck>>

NextDashboard ==
    \/ DashLoginSubmit
    \/ \E user \in DashUsers : DashLoginOk(user)
    \/ DashLoginRefused
    \/ DashLogout
    \/ DashRequest401
    \/ \E url \in ProtectedUrls : DashNavigate(url)
    \/ DashReload

SpecDashboard == InitDashboard /\ [][NextDashboard]_vars

\* C30: whenever no auth token is stored (before login, after logout, or
\* after a 401 response made the interceptor clear storage) the dashboard
\* AuthService has no current user: getCurrentUser() is null, isAuthenticated()
\* is false and isOwner()/isAdminOrOwner() are false; after a successful login
\* the token and the user are stored and getCurrentUser() is that user.
C30_NoTokenNoCurrentUser ==
    /\ [](dashboard.auth_token = NULL
            => /\ getCurrentUser = NoUser
               /\ ~isAuthenticated
               /\ ~isOwner
               /\ ~isAdminOrOwner)
    /\ [][\A user \in DashUsers :
            DashLoginOk(user)
                => /\ dashboard'.auth_token = AccessToken(user)
                   /\ dashboard'.current_user = user
                   /\ dashboard'.currentUserSignal = user]_vars

\* what holds of C30: without a stored token isAuthenticated() is false and
\* authGuard admits no navigation; logout and a fresh page leave no user;
\* a successful login stores token and user and makes that user current
SessionWithoutTokenIsNotAuthenticated ==
    /\ [](dashboard.auth_token = NULL
            => ~isAuthenticated /\ dashboard.current_user = NoUser)
    /\ [][DashLogout \/ (DashReload /\ dashboard.auth_token = NULL)
            => dashboard'.currentUserSignal = NoUser]_vars
    /\ [][(\E url \in ProtectedUrls : DashNavigate(url)) /\ dashboard.auth_token = NULL
            => dashboard'.url = "/login"]_vars
    /\ [][\A user \in DashUsers :
            DashLoginOk(user)
                => /\ dashboard'.auth_token = AccessToken(user)
                   /\ dashboard'.current_user = user
                   /\ dashboard'.currentUserSignal = user]_vars

====
